---------------------------- MODULE Spec2Model ----------------------------
(***************************************************************************)
(* metanl: the mojibake repair fix_bad_unicode of metanl/fixit.py.         *)
(*                                                                         *)
(* A Unicode string is a sequence of code points (integers).  A byte      *)
(* string is a sequence of integers in 0..255.  The module models the     *)
(* classification tables, the alternation BAD_UNICODE_RE, the encode /    *)
(* recode / decode step on a matched span, the while loop that collects   *)
(* the chunks, and the recursive call on the joined result.               *)
(***************************************************************************)
EXTENDS Integers, Sequences, FiniteSets, TLC

VARIABLES
    text,       \* the argument of the outermost call of fix_bad_unicode
    origin,     \* the clean string the input was garbled from
    level,      \* how many times origin was garbled to give text (0: text is raw)
    cur,        \* the argument `text` of the innermost active call
    remaining,  \* the local `remaining`
    chunks,     \* the local list `chunks`
    result,     \* the local `result`
    pc,         \* "loop" | "check" | "done" | "raised"
    depth,      \* active frames of fix_bad_unicode
    ret,        \* the value returned by the outermost call
    error,      \* the exception that left the outermost call, "" when none
    calls,      \* outermost calls started so far (1, or 2 after the re-application)
    first,      \* the value returned by the first outermost call
    passes,     \* invocations of this outermost call whose result differs from their argument
    steps,      \* iterations of the while loop done by the innermost call
    spans,      \* spans replaced by the innermost call, as <<to_fix, fixed>>
    threads,    \* the frames of the calls of fix_bad_unicode that run concurrently
    pp,         \* the call of preprocess_text (general.py)
    sp,         \* the generator string_pieces (token_utils.py)
    fl          \* the call of FreelingWrapper.analyze (freeling.py)

vars == <<text, origin, level, cur, remaining, chunks, result, pc, depth, ret,
          error, calls, first, passes, steps, spans, threads, pp, sp, fl>>

\* The state of the operations that do not run while one call of
\* fix_bad_unicode is followed on its own.
others == <<threads, pp, sp, fl>>

\* No concurrent call, no call of preprocess_text, no generator, no call
\* of analyze.
Idle == [pc |-> "idle"]
OthersIdle == threads = <<>> /\ pp = Idle /\ sp = Idle /\ fl = Idle

---------------------------------------------------------------------------
(* Bounds of the model.                                                    *)

\* Longest raw input string of Spec.
MaxLen == 4

\* The code points raw inputs are drawn from: one or more of every class the
\* tables distinguish, and characters of none.
Alphabet ==
    { \h41,      \* A: in no class
      \h83,      \* continuation below A0
      \hA9,      \* continuation from A0 on (TRIPLES_HIGH_SECOND)
      \hC2,      \* pair lead outside PAIRS_SAFE_START
      \hC3,      \* the literal of shape 3, in PAIRS_SAFE_START
      \hC5,      \* pair lead in PAIRS_SAFE_START
      \hE0,      \* the literal of shape 5
      \hE2,      \* the literal of shape 6, in TRIPLES_START
      \h20AC,    \* euro sign: in CP1252_GREMLINS
      \h201D }   \* right double quotation mark: in CP1252_MORE_GREMLINS only

\* Of the three-byte characters, every LevelStride-th one is garbled more
\* than once (every character is garbled once).
LevelStride == 5

---------------------------------------------------------------------------
(* Sequences.                                                              *)

\* A slip: the chunks joined with a separator, u' '.join(chunks).
RECURSIVE Join_WithSeparator(_)
Join_WithSeparator(cs) ==
    IF cs = <<>> THEN <<>>
    ELSE IF Len(cs) = 1 THEN Head(cs)
    ELSE Head(cs) \o << \h20 >> \o Join_WithSeparator(Tail(cs))

\* u''.join(chunks), fixit.py line 187.
RECURSIVE Join(_)
Join(cs) == IF cs = <<>> THEN <<>> ELSE Head(cs) \o Join(Tail(cs))

\* All sequences over S of length exactly n / at most n.
SeqsOfLen(S, n) == [1..n -> S]
SeqsUpTo(S, n) == UNION { SeqsOfLen(S, k) : k \in 0..n }

---------------------------------------------------------------------------
(* The classification tables, fixit.py lines 16-79.                        *)

CP1252_GREMLINS ==
    { \h20AC, \h201A, \h0192, \h201E, \h2020, \h2021, \h02C6, \h2030, \h0160,
      \h2039, \h0152, \h017D, \h2022, \h02DC, \h0161, \h0153, \h017E, \h0178 }

CP1252_MORE_GREMLINS ==
    CP1252_GREMLINS \cup
    { \h2026, \h2018, \h2019, \h201C, \h201D, \h2013, \h2014, \h2122, \h203A }

\* A slip: the leads begin at C0, with the two bytes UTF-8 never uses.
PAIRS_START_FromC0 == \hC0 .. \hDF

PAIRS_START == \hC2 .. \hDF
\* A slip: every two-byte lead counts as safe.
PAIRS_SAFE_START_AllLeads == \hC2 .. \hDF

PAIRS_SAFE_START == \hC3 .. \hC9
\* A slip: xrange(0x80, 0xbf), which leaves out the last continuation.
PAIRS_REST_OffByOne == \h80 .. \hBE

PAIRS_REST == \h80 .. \hBF
\* A slip: the leads of three bytes go on to F4, over the leads of four.
TRIPLES_START_ToF4 == \hE1 .. \hF4

TRIPLES_START == \hE1 .. \hEF
TRIPLES_REST == \h80 .. \hBF
\* A slip: xrange(0xa1, 0xc0), which leaves out the first byte after E0.
TRIPLES_HIGH_SECOND_FromA1 == \hA1 .. \hBF

TRIPLES_HIGH_SECOND == \hA0 .. \hBF

---------------------------------------------------------------------------
(* BAD_UNICODE_RE, fixit.py lines 82-94: an alternation of six sequences   *)
(* of character classes.  A pattern is the sequence of its classes.        *)

\* A slip: the second alternative takes CP1252_MORE_GREMLINS after a safe
\* lead, so that a pair like U+00C5 U+2122 is taken for a glitch.
BAD_UNICODE_SEQUENCES_MoreInPairs ==
    << << PAIRS_START, PAIRS_REST >>,
       << PAIRS_SAFE_START, CP1252_MORE_GREMLINS >>,
       << {\hC3}, PAIRS_REST \cup CP1252_MORE_GREMLINS >>,
       << TRIPLES_START, TRIPLES_REST, TRIPLES_REST >>,
       << {\hE0}, TRIPLES_HIGH_SECOND, TRIPLES_REST >>,
       << {\hE2}, TRIPLES_REST \cup CP1252_GREMLINS,
                  TRIPLES_REST \cup CP1252_MORE_GREMLINS >> >>

\* A slip: the last alternative begins with C3 in place of E2, so that a
\* pair and a triple can start at the same character.
BAD_UNICODE_SEQUENCES_TripleAtC3 ==
    << << PAIRS_START, PAIRS_REST >>,
       << PAIRS_SAFE_START, CP1252_GREMLINS >>,
       << {\hC3}, PAIRS_REST \cup CP1252_MORE_GREMLINS >>,
       << TRIPLES_START, TRIPLES_REST, TRIPLES_REST >>,
       << {\hE0}, TRIPLES_HIGH_SECOND, TRIPLES_REST >>,
       << {\hC3}, TRIPLES_REST \cup CP1252_GREMLINS,
                  TRIPLES_REST \cup CP1252_MORE_GREMLINS >> >>

BAD_UNICODE_SEQUENCES ==
    << << PAIRS_START, PAIRS_REST >>,
       << PAIRS_SAFE_START, CP1252_GREMLINS >>,
       << {\hC3}, PAIRS_REST \cup CP1252_MORE_GREMLINS >>,
       << TRIPLES_START, TRIPLES_REST, TRIPLES_REST >>,
       << {\hE0}, TRIPLES_HIGH_SECOND, TRIPLES_REST >>,
       << {\hE2}, TRIPLES_REST \cup CP1252_GREMLINS,
                  TRIPLES_REST \cup CP1252_MORE_GREMLINS >> >>

\* Alternative k of the alternation matches s at position i (1-based).
ShapeAt(k, s, i) ==
    LET p == BAD_UNICODE_SEQUENCES[k]
    IN  /\ i + Len(p) - 1 <= Len(s)
        /\ \A j \in 1..Len(p) : s[i + j - 1] \in p[j]

\* The alternative the regex engine takes at position i: the alternatives
\* are tried in the order of the list and the first that matches wins;
\* 0 when none does.
RECURSIVE FirstShapeFrom(_, _, _)
FirstShapeFrom(k, s, i) ==
    IF k > Len(BAD_UNICODE_SEQUENCES) THEN 0
    ELSE IF ShapeAt(k, s, i) THEN k
    ELSE FirstShapeFrom(k + 1, s, i)

FirstShapeAt(s, i) == FirstShapeFrom(1, s, i)

NoMatch == [start |-> 0, end |-> 0, shape |-> 0]

\* A slip: the search returns the last position where an alternative
\* matches, not the first.
BAD_UNICODE_RE_search_Rightmost(s) ==
    IF \E i \in 1..Len(s) : FirstShapeAt(s, i) # 0
    THEN LET i == CHOOSE i \in 1..Len(s) :
                    /\ FirstShapeAt(s, i) # 0
                    /\ \A h \in (i + 1)..Len(s) : FirstShapeAt(s, h) = 0
             k == FirstShapeAt(s, i)
         IN  [start |-> i, end |-> i + Len(BAD_UNICODE_SEQUENCES[k]), shape |-> k]
    ELSE NoMatch

\* BAD_UNICODE_RE.search(s): the leftmost position where an alternative
\* matches.  start is 1-based and end is the first position after the span.
BAD_UNICODE_RE_search(s) ==
    IF \E i \in 1..Len(s) : FirstShapeAt(s, i) # 0
    THEN LET i == CHOOSE i \in 1..Len(s) :
                    /\ FirstShapeAt(s, i) # 0
                    /\ \A h \in 1..(i - 1) : FirstShapeAt(s, h) = 0
             k == FirstShapeAt(s, i)
         IN  [start |-> i, end |-> i + Len(BAD_UNICODE_SEQUENCES[k]), shape |-> k]
    ELSE NoMatch

\* `if match:` of line 164: the search found a span.
HasMatch(s) == BAD_UNICODE_RE_search(s) # NoMatch

\* A slip: BAD_UNICODE_RE.match(result), which looks at the start only.
GlitchesLeft_MatchAtStart(r) == FirstShapeAt(r, 1) # 0

\* Line 192, `if BAD_UNICODE_RE.search(result):` some glitch is left.
GlitchesLeft(r) == BAD_UNICODE_RE_search(r) # NoMatch

---------------------------------------------------------------------------
(* The codecs used on a matched span.                                      *)

\* unicode.encode('latin-1') succeeds exactly on code points up to U+00FF,
\* and then gives the bytes of the same values.
Latin1Encodable(s) == \A i \in 1..Len(s) : s[i] <= \hFF

\* char.encode('cp1252') of the 27 characters Windows-1252 puts at 0x80-0x9F.
Cp1252Byte(c) ==
    CASE c = \h20AC -> \h80 [] c = \h201A -> \h82 [] c = \h0192 -> \h83
      [] c = \h201E -> \h84 [] c = \h2026 -> \h85 [] c = \h2020 -> \h86
      [] c = \h2021 -> \h87 [] c = \h02C6 -> \h88 [] c = \h2030 -> \h89
      [] c = \h0160 -> \h8A [] c = \h2039 -> \h8B [] c = \h0152 -> \h8C
      [] c = \h017D -> \h8E [] c = \h2018 -> \h91 [] c = \h2019 -> \h92
      [] c = \h201C -> \h93 [] c = \h201D -> \h94 [] c = \h2022 -> \h95
      [] c = \h2013 -> \h96 [] c = \h2014 -> \h97 [] c = \h02DC -> \h98
      [] c = \h2122 -> \h99 [] c = \h0161 -> \h9A [] c = \h203A -> \h9B
      [] c = \h0153 -> \h9C [] c = \h017E -> \h9E [] c = \h0178 -> \h9F

\* A slip: the whole span is encoded as cp1252, which has no byte for the
\* control characters U+0080-U+009F; a span that holds one of them together
\* with a gremlin then stays as it is, and its encoding as Latin-1 fails.
recode_from_windows_WholeSpan(t) ==
    IF \E i \in 1..Len(t) : t[i] \in \h80 .. \h9F
    THEN t
    ELSE [i \in 1..Len(t) |->
            IF t[i] \in CP1252_MORE_GREMLINS THEN Cp1252Byte(t[i]) ELSE t[i]]

\* recode_from_windows, fixit.py lines 196-208.
recode_from_windows(t) ==
    [i \in 1..Len(t) |->
        IF t[i] \in CP1252_MORE_GREMLINS THEN Cp1252Byte(t[i]) ELSE t[i]]

\* The try / except of lines 167-176: the bytes of the span, or the
\* UnicodeEncodeError of line 176 that nothing catches.
EncodeSpan(to_fix) ==
    IF Latin1Encodable(to_fix)
    THEN [ok |-> TRUE, bytes |-> to_fix]
    ELSE LET r == recode_from_windows(to_fix)
         IN  IF Latin1Encodable(r)
             THEN [ok |-> TRUE, bytes |-> r]
             ELSE [ok |-> FALSE, bytes |-> <<>>]

IsCont(b) == b \in \h80 .. \hBF

\* A slip: encoded.decode('latin-1'), every byte a character of its own.
Utf8Decode_AsLatin1(b) == [ok |-> TRUE, val |-> b]

\* str.decode('utf-8') of Python 2: strict about lead and continuation
\* bytes and about overlong forms, and it decodes the surrogates
\* (ED A0..BF xx) like any other three-byte sequence.
RECURSIVE Utf8Decode(_)
Utf8Decode(b) ==
    IF b = <<>> THEN [ok |-> TRUE, val |-> <<>>]
    ELSE LET b1 == b[1]
             n  == IF b1 < \h80 THEN 1
                   ELSE IF b1 \in \hC2 .. \hDF THEN 2
                   ELSE IF b1 \in \hE0 .. \hEF THEN 3
                   ELSE IF b1 \in \hF0 .. \hF4 THEN 4
                   ELSE 0
             wellFormed ==
                /\ n > 0
                /\ Len(b) >= n
                /\ \A j \in 2..n : IsCont(b[j])
                /\ (b1 = \hE0) => b[2] >= \hA0
                /\ (b1 = \hF0) => b[2] >= \h90
                /\ (b1 = \hF4) => b[2] <= \h8F
             c  == CASE n = 1 -> b1
                     [] n = 2 -> (b1 % 32) * 64 + (b[2] % 64)
                     [] n = 3 -> (b1 % 16) * 4096 + (b[2] % 64) * 64 + (b[3] % 64)
                     [] n = 4 -> (b1 % 8) * 262144 + (b[2] % 64) * 4096
                                    + (b[3] % 64) * 64 + (b[4] % 64)
         IN  IF ~wellFormed THEN [ok |-> FALSE, val |-> <<>>]
             ELSE LET rest == Utf8Decode(SubSeq(b, n + 1, Len(b)))
                  IN  IF rest.ok THEN [ok |-> TRUE, val |-> <<c>> \o rest.val]
                      ELSE rest

\* unicode.encode('utf-8') of one code point.
Utf8Encode(c) ==
    IF c < \h80 THEN << c >>
    ELSE IF c < \h800 THEN << \hC0 + (c \div 64), \h80 + (c % 64) >>
    ELSE IF c < \h10000
         THEN << \hE0 + (c \div 4096), \h80 + ((c \div 64) % 64), \h80 + (c % 64) >>
    ELSE << \hF0 + (c \div 262144), \h80 + ((c \div 4096) % 64),
            \h80 + ((c \div 64) % 64), \h80 + (c % 64) >>

\* s.encode('utf-8').decode('latin-1'): every byte of the UTF-8 form taken
\* as the code point of the same value.
RECURSIVE Garble(_)
Garble(s) == IF s = <<>> THEN <<>> ELSE Utf8Encode(Head(s)) \o Garble(Tail(s))

RECURSIVE GarbleTimes(_, _)
GarbleTimes(s, k) == IF k = 0 THEN s ELSE GarbleTimes(Garble(s), k - 1)


---------------------------------------------------------------------------
(* fix_bad_unicode, fixit.py lines 96-194, as a state machine.  Only the   *)
(* innermost frame is ever active: a frame that calls itself recursively   *)
(* returns what the inner call returns (line 193), so the frames below the *)
(* innermost one are counted in depth and hold nothing else.               *)

\* sys.getrecursionlimit() of CPython: the frames the interpreter allows
\* before the call of line 193 raises RuntimeError.
RecursionLimit == 1000

\* A frame of fix_bad_unicode starts on argument arg (lines 154-161).
Enter(arg) ==
    /\ cur' = arg
    /\ remaining' = arg
    /\ chunks' = <<>>
    /\ result' = <<>>
    /\ steps' = 0
    /\ spans' = <<>>
    /\ pc' = "loop"

\* The exception exc leaves the innermost frame and, caught nowhere, every
\* frame below it.
Raise(exc) ==
    /\ pc' = "raised"
    /\ error' = exc
    /\ UNCHANGED <<cur, remaining, chunks, result, steps, spans, depth, ret,
                   first, passes>>

\* A slip: the search goes on from the replacement, not from the end of the
\* span.
LoopMatch_Rescan ==
    /\ pc = "loop"
    /\ remaining # <<>>
    /\ LET match == BAD_UNICODE_RE_search(remaining)
           before == SubSeq(remaining, 1, match.start - 1)
           to_fix == SubSeq(remaining, match.start, match.end - 1)
           encoded == EncodeSpan(to_fix)
           fixed == Utf8Decode(encoded.bytes)
       IN  /\ match # NoMatch
           /\ IF ~encoded.ok THEN Raise("UnicodeEncodeError")
              ELSE IF ~fixed.ok THEN Raise("UnicodeDecodeError")
              ELSE /\ chunks' = chunks \o << before >>
                   /\ remaining' = fixed.val \o SubSeq(remaining, match.end, Len(remaining))
                   /\ steps' = steps + 1
                   /\ spans' = Append(spans, << to_fix, fixed.val >>)
                   /\ UNCHANGED <<cur, result, pc, depth, ret, error, first, passes>>
    /\ UNCHANGED <<text, origin, level, calls>>
    /\ UNCHANGED others

\* Lines 163-183: one iteration of the while loop in which the search finds
\* a span.
LoopMatch ==
    /\ pc = "loop"
    /\ remaining # <<>>
    /\ LET match == BAD_UNICODE_RE_search(remaining)
           before == SubSeq(remaining, 1, match.start - 1)
           to_fix == SubSeq(remaining, match.start, match.end - 1)
           encoded == EncodeSpan(to_fix)
           fixed == Utf8Decode(encoded.bytes)
       IN  /\ match # NoMatch
           /\ IF ~encoded.ok THEN Raise("UnicodeEncodeError")
              ELSE IF ~fixed.ok THEN Raise("UnicodeDecodeError")
              ELSE /\ chunks' = chunks \o << before, fixed.val >>
                   /\ remaining' = SubSeq(remaining, match.end, Len(remaining))
                   /\ steps' = steps + 1
                   /\ spans' = Append(spans, << to_fix, fixed.val >>)
                   /\ UNCHANGED <<cur, result, pc, depth, ret, error, first, passes>>
    /\ UNCHANGED <<text, origin, level, calls>>
    /\ UNCHANGED others

\* A slip: the else branch empties `remaining` and appends nothing.
LoopNoMatch_DropsTail ==
    /\ pc = "loop"
    /\ remaining # <<>>
    /\ ~HasMatch(remaining)
    /\ remaining' = <<>>
    /\ steps' = steps + 1
    /\ UNCHANGED <<text, origin, level, cur, chunks, result, pc, depth, ret,
                   error, calls, first, passes, spans>>
    /\ UNCHANGED others

\* Lines 184-186: the iteration in which the search finds nothing.
LoopNoMatch ==
    /\ pc = "loop"
    /\ remaining # <<>>
    /\ ~HasMatch(remaining)
    /\ chunks' = Append(chunks, remaining)
    /\ remaining' = <<>>
    /\ steps' = steps + 1
    /\ UNCHANGED <<text, origin, level, cur, result, pc, depth, ret, error,
                   calls, first, passes, spans>>
    /\ UNCHANGED others

\* Line 187: the loop has ended and the chunks are joined.
LoopExit ==
    /\ pc = "loop"
    /\ remaining = <<>>
    /\ result' = Join(chunks)
    /\ passes' = IF Join(chunks) # cur THEN passes + 1 ELSE passes
    /\ pc' = "check"
    /\ UNCHANGED <<text, origin, level, cur, remaining, chunks, depth, ret,
                   error, calls, first, steps, spans>>
    /\ UNCHANGED others

\* A slip: no recursive call; the result of the first pass is returned
\* with the glitches it still holds.
Recurse_ReturnsUnfinished ==
    /\ pc = "check"
    /\ GlitchesLeft(result)
    /\ ret' = result
    /\ first' = IF calls = 1 THEN result ELSE first
    /\ depth' = 0
    /\ pc' = "done"
    /\ UNCHANGED <<text, origin, level, cur, remaining, chunks, result, error,
                   calls, passes, steps, spans>>
    /\ UNCHANGED others

\* Lines 192-193: the result still holds a match and the function calls
\* itself on it; the call raises RuntimeError when the interpreter's
\* recursion limit is used up.
Recurse ==
    /\ pc = "check"
    /\ GlitchesLeft(result)
    /\ IF depth + 1 > RecursionLimit
       THEN Raise("RuntimeError")
       ELSE /\ Enter(result)
            /\ depth' = depth + 1
            /\ UNCHANGED <<ret, error, first, passes>>
    /\ UNCHANGED <<text, origin, level, calls>>
    /\ UNCHANGED others

\* Line 194: no match is left; the result is returned through every frame.
Return ==
    /\ pc = "check"
    /\ ~GlitchesLeft(result)
    /\ ret' = result
    /\ first' = IF calls = 1 THEN result ELSE first
    /\ depth' = 0
    /\ pc' = "done"
    /\ UNCHANGED <<text, origin, level, cur, remaining, chunks, result, error,
                   calls, passes, steps, spans>>
    /\ UNCHANGED others

\* The caller applies fix_bad_unicode to what the first call returned.
CallAgain ==
    /\ pc = "done"
    /\ calls = 1
    /\ calls' = 2
    /\ Enter(ret)
    /\ depth' = 1
    /\ passes' = 0
    /\ UNCHANGED <<text, origin, level, ret, error, first>>
    /\ UNCHANGED others

\* One call of fix_bad_unicode.
Next ==
    \/ LoopMatch
    \/ LoopNoMatch
    \/ LoopExit
    \/ Recurse
    \/ Return

\* fix_bad_unicode(fix_bad_unicode(text)).
NextTwice ==
    \/ Next
    \/ CallAgain

\* The outermost call starts on input t, which is clean string o garbled k
\* times.  The input is a unicode object, so line 157 takes it as it is (a
\* byte string would first be decoded, line 155).
Start(t, o, k) ==
    /\ text = t
    /\ origin = o
    /\ level = k
    /\ cur = t
    /\ remaining = t
    /\ chunks = <<>>
    /\ result = <<>>
    /\ pc = "loop"
    /\ depth = 1
    /\ ret = <<>>
    /\ error = ""
    /\ calls = 1
    /\ first = <<>>
    /\ passes = 0
    /\ steps = 0
    /\ spans = <<>>
    /\ OthersIdle

\* Every raw string over Alphabet of at most MaxLen characters.
Init == \E t \in SeqsUpTo(Alphabet, MaxLen) : Start(t, t, 0)

Spec == Init /\ [][Next]_vars

SpecTwice == Init /\ [][NextTwice]_vars

\* test_all_bmp_characters, test_unicode.py lines 5-9: the code points of
\* xrange(0, 65533) whose category is not Co (private use, E000-F8FF).
BmpTestEnd == 65533
PrivateUse(c) == c \in \hE000 .. \hF8FF
TestedBmp == { c \in 0..(BmpTestEnd - 1) : ~PrivateUse(c) }

\* The levels of mis-encoding: the garbling applied once, twice, three times.
Levels == 1..3

\* The characters garbled more than once: every one- and two-byte character
\* and every LevelStride-th three-byte character.
LevelChars == (0 .. \h7FF) \cup { c \in \h800 .. \hFFFF : c % LevelStride = 0 }

\* Every code point of the Basic Multilingual Plane garbled once, and the
\* characters of LevelChars garbled twice and three times.
InitBMP ==
    \E c \in 0 .. \hFFFF, k \in Levels :
        /\ (k > 1) => c \in LevelChars
        /\ Start(GarbleTimes(<<c>>, k), <<c>>, k)

SpecBMP == InitBMP /\ [][Next]_vars

\* U+00C3 followed by n times U+0083: every pass repairs the first two
\* characters to U+00C3 again, so the input takes n nested calls.
DeepInput(n) == << \hC3 >> \o [i \in 1..n |-> \h83]

InitDeep ==
    \E n \in {RecursionLimit, RecursionLimit + 1} :
        Start(DeepInput(n), DeepInput(n), 0)

SpecDeep == InitDeep /\ [][Next]_vars


---------------------------------------------------------------------------
(* The strings of the tests: the phrases of test_unicode.py, the doctests  *)
(* of fix_bad_unicode, and short probes around the more-gremlins.          *)

\* The phrases of test_unicode.py, lines 11-18: typographic punctuation next
\* to accented letters, which the repair has to leave alone.
phrases ==
    << << \h201C, \h49, \h27, \h6D, \h20, \h6E, \h6F, \h74, \h20, \h73,
          \h75, \h63, \h68, \h20, \h61, \h20, \h66, \h61, \h6E, \h20, \h6F,
          \h66, \h20, \h43, \h68, \h61, \h72, \h6C, \h6F, \h74, \h74, \h65,
          \h20, \h42, \h72, \h6F, \h6E, \h74, \hEB, \h2026, \h201D >>,
       << \h201C, \h49, \h27, \h6D, \h20, \h6E, \h6F, \h74, \h20, \h73,
          \h75, \h63, \h68, \h20, \h61, \h20, \h66, \h61, \h6E, \h20, \h6F,
          \h66, \h20, \h43, \h68, \h61, \h72, \h6C, \h6F, \h74, \h74, \h65,
          \h20, \h42, \h72, \h6F, \h6E, \h74, \hEB, \h2026, \h201D >>,
       << \h2039, \h41, \h4C, \h4C, \hCD, \h20, \h45, \h53, \h54, \hC1,
          \h203A >>,
       << \h2014, \h41, \h4C, \h4C, \hCD, \h20, \h45, \h53, \h54, \hC1,
          \h2014 >>,
       << \h41, \h48, \hC5, \h2122, \h2C, \h20, \h74, \h68, \h65, \h20,
          \h6E, \h65, \h77, \h20, \h73, \h6F, \h66, \h61, \h20, \h66, \h72,
          \h6F, \h6D, \h20, \h49, \h4B, \h45, \h41, \hAE >> >>

\* The doctests of fix_bad_unicode, fixit.py lines 113-138: the argument
\* and the string printed.
Doctests ==
    << [arg |-> << \hC3, \hBA, \h6E, \h69, \h63, \h6F >>,
        out |-> << \hFA, \h6E, \h69, \h63, \h6F >>],
       [arg |-> << \h54, \h68, \h69, \h73, \h20, \h74, \h65, \h78, \h74, \h20, \h69,
                   \h73, \h20, \h66, \h69, \h6E, \h65, \h20, \h61, \h6C, \h72, \h65,
                   \h61, \h64, \h79, \h20, \h3A, \hFE >>,
        out |-> << \h54, \h68, \h69, \h73, \h20, \h74, \h65, \h78, \h74, \h20, \h69,
                   \h73, \h20, \h66, \h69, \h6E, \h65, \h20, \h61, \h6C, \h72, \h65,
                   \h61, \h64, \h79, \h20, \h3A, \hFE >>],
       [arg |-> << \h54, \h68, \h69, \h73, \h20, \hE2, \h20AC, \h201D, \h20, \h73,
                   \h68, \h6F, \h75, \h6C, \h64, \h20, \h62, \h65, \h20, \h61, \h6E,
                   \h20, \h65, \h6D, \h20, \h64, \h61, \h73, \h68 >>,
        out |-> << \h54, \h68, \h69, \h73, \h20, \h2014, \h20, \h73, \h68, \h6F,
                   \h75, \h6C, \h64, \h20, \h62, \h65, \h20, \h61, \h6E, \h20, \h65,
                   \h6D, \h20, \h64, \h61, \h73, \h68 >>],
       [arg |-> << \h54, \h68, \h69, \h73, \h20, \h74, \h65, \h78, \h74, \h20, \h69,
                   \h73, \h20, \h73, \h61, \h64, \h20, \hE2, \h81, \h201D, \h2E,
                   \h2E >>,
        out |-> << \h54, \h68, \h69, \h73, \h20, \h74, \h65, \h78, \h74, \h20, \h69,
                   \h73, \h20, \h73, \h61, \h64, \h20, \h2054, \h2E, \h2E >>],
       [arg |-> << \h77, \h68, \h61, \h74, \h20, \h74, \h68, \h65, \h20, \h66, \hC3,
                   \h83, \hC2, \h85, \hC3, \h82, \hC2, \hB1, \h63, \h6B >>,
        out |-> << \h77, \h68, \h61, \h74, \h20, \h74, \h68, \h65, \h20, \h66,
                   \h171, \h63, \h6B >>] >>

\* s[k:] for every k below len(s): the phrase, phrase[1:] of line 24, and
\* the tails after it.
Tails(s) == { SubSeq(s, k, Len(s)) : k \in 1..Len(s) }

PhraseTails == UNION { Tails(phrases[i]) : i \in DOMAIN phrases }

DoctestTails == UNION { Tails(Doctests[i].arg) : i \in DOMAIN Doctests }

\* The nine characters that are in CP1252_MORE_GREMLINS only (lines 46-54).
MoreOnly == CP1252_MORE_GREMLINS \ CP1252_GREMLINS

\* byte.decode('cp1252') as Windows does it: a byte of 0x80-0x9F becomes the
\* character Windows-1252 puts there, and a byte with no mapping (0x81,
\* 0x8D, 0x8F, 0x90, 0x9D) stays the control character (lines 128-130).
Cp1252Char(b) ==
    IF \E c \in CP1252_MORE_GREMLINS : Cp1252Byte(c) = b
    THEN CHOOSE c \in CP1252_MORE_GREMLINS : Cp1252Byte(c) = b
    ELSE b

\* s.encode('utf-8') read as Windows-1252: the garbling of lines 119-133.
WindowsGarble(s) == LET g == Garble(s) IN [i \in 1..Len(g) |-> Cp1252Char(g[i])]

\* The second characters of the probes: continuations below and above A0,
\* a gremlin and a more-gremlin.
ProbeSeconds == { \h80, \h83, \hA9, \h20AC, \h201D }

\* A character of C0-FF, possibly a second character, and a more-gremlin.
Probes ==
    { << a, m >> : a \in \hC0 .. \hFF, m \in MoreOnly }
    \cup { << a, b, m >> : a \in \hC0 .. \hFF, b \in ProbeSeconds, m \in MoreOnly }

\* The strings of the tests as they are, the phrases garbled through Latin-1
\* once and twice, and the phrases garbled through Windows-1252.
InitTests ==
    \/ \E t \in PhraseTails \cup DoctestTails \cup Probes : Start(t, t, 0)
    \/ \E t \in PhraseTails, k \in 1..2 : Start(GarbleTimes(t, k), t, k)
    \/ \E t \in PhraseTails : Start(WindowsGarble(t), t, 1)

SpecTests == InitTests /\ [][Next]_vars

---------------------------------------------------------------------------
(* fix_bad_unicode as a function of its argument: what one call returns    *)
(* when nothing else runs.                                                 *)

\* Lines 161-187 from `remaining` on: the chunks the while loop still
\* appends, joined; or the exception that ends it.
RECURSIVE Pass(_)
Pass(rem) ==
    IF rem = <<>> THEN [ok |-> TRUE, val |-> <<>>, error |-> ""]
    ELSE LET match == BAD_UNICODE_RE_search(rem)
             before == SubSeq(rem, 1, match.start - 1)
             to_fix == SubSeq(rem, match.start, match.end - 1)
             encoded == EncodeSpan(to_fix)
             fixed == Utf8Decode(encoded.bytes)
             rest == Pass(SubSeq(rem, match.end, Len(rem)))
         IN  IF match = NoMatch THEN [ok |-> TRUE, val |-> rem, error |-> ""]
             ELSE IF ~encoded.ok
                  THEN [ok |-> FALSE, val |-> <<>>, error |-> "UnicodeEncodeError"]
             ELSE IF ~fixed.ok
                  THEN [ok |-> FALSE, val |-> <<>>, error |-> "UnicodeDecodeError"]
             ELSE IF ~rest.ok THEN rest
             ELSE [ok |-> TRUE, val |-> before \o fixed.val \o rest.val, error |-> ""]

\* Lines 153-194 in the frame number d: the pass, then the recursive call
\* while a match is left and the interpreter has a frame to give.
RECURSIVE fix_bad_unicode_frame(_, _)
fix_bad_unicode_frame(arg, d) ==
    LET r == Pass(arg)
    IN  IF ~r.ok THEN r
        ELSE IF ~GlitchesLeft(r.val) THEN r
        ELSE IF d + 1 > RecursionLimit
             THEN [ok |-> FALSE, val |-> <<>>, error |-> "RuntimeError"]
        ELSE fix_bad_unicode_frame(r.val, d + 1)

fix_bad_unicode(arg) == fix_bad_unicode_frame(arg, 1)

\* The single call does not run.
single == <<text, origin, level, cur, remaining, chunks, result, pc, depth,
            ret, error, calls, first, passes, steps, spans>>

SingleIdle ==
    /\ text = <<>> /\ origin = <<>> /\ level = 0
    /\ cur = <<>> /\ remaining = <<>> /\ chunks = <<>> /\ result = <<>>
    /\ pc = "idle" /\ depth = 0 /\ ret = <<>> /\ error = ""
    /\ calls = 0 /\ first = <<>> /\ passes = 0 /\ steps = 0 /\ spans = <<>>

---------------------------------------------------------------------------
(* Concurrent calls of fix_bad_unicode.  Every call has a frame of its own *)
(* locals (text, remaining, chunks, result); the tables of lines 16-94 are *)
(* module-level unicode strings and a compiled pattern, which no statement *)
(* of the module assigns after line 94.  A step is one iteration of the    *)
(* while loop or one of the statements after it; the interpreter may       *)
(* switch threads between any two of them.                                 *)

\* The calls that run at the same time.
NThreads == 2

\* The arguments of the concurrent calls: clean strings, one span, two
\* spans with text between, a gremlin span, and strings that take two
\* passes.
ThreadInputs ==
    { <<>>,
      << \h41 >>,
      << \hE2, \h41 >>,
      << \hC3, \hA9 >>,
      << \hC3, \h83, \h83 >>,
      << \hC3, \h83, \hC2, \hA9 >>,
      << \hE2, \h20AC, \h201D, \h41 >>,
      << \h41, \hC5, \h20AC, \h41, \hC3, \h83 >> }

\* The frame of a call that starts on arg (lines 154-161).
Frame(arg, d) ==
    [text |-> arg, remaining |-> arg, chunks |-> <<>>, result |-> <<>>,
     pc |-> "loop", depth |-> d, ret |-> <<>>, error |-> ""]

\* A slip: `chunks` is one module-level list, which every call appends to
\* and joins.
T_LoopMatch_SharedChunks(t) ==
    LET f == threads[t]
        match == BAD_UNICODE_RE_search(f.remaining)
        before == SubSeq(f.remaining, 1, match.start - 1)
        to_fix == SubSeq(f.remaining, match.start, match.end - 1)
        encoded == EncodeSpan(to_fix)
        fixed == Utf8Decode(encoded.bytes)
    IN  /\ f.pc = "loop"
        /\ f.remaining # <<>>
        /\ match # NoMatch
        /\ threads' =
             [u \in DOMAIN threads |->
                IF u = t
                THEN [f EXCEPT !.chunks = f.chunks \o << before, fixed.val >>,
                               !.remaining = SubSeq(f.remaining, match.end,
                                                    Len(f.remaining))]
                ELSE [threads[u] EXCEPT
                         !.chunks = f.chunks \o << before, fixed.val >>]]
        /\ UNCHANGED <<single, pp, sp, fl>>

\* Lines 163-183 in the call of thread t.
T_LoopMatch(t) ==
    LET f == threads[t]
        match == BAD_UNICODE_RE_search(f.remaining)
        before == SubSeq(f.remaining, 1, match.start - 1)
        to_fix == SubSeq(f.remaining, match.start, match.end - 1)
        encoded == EncodeSpan(to_fix)
        fixed == Utf8Decode(encoded.bytes)
    IN  /\ f.pc = "loop"
        /\ f.remaining # <<>>
        /\ match # NoMatch
        /\ threads' =
             [threads EXCEPT ![t] =
                IF ~encoded.ok
                THEN [f EXCEPT !.pc = "raised", !.error = "UnicodeEncodeError"]
                ELSE IF ~fixed.ok
                THEN [f EXCEPT !.pc = "raised", !.error = "UnicodeDecodeError"]
                ELSE [f EXCEPT !.chunks = f.chunks \o << before, fixed.val >>,
                               !.remaining = SubSeq(f.remaining, match.end,
                                                    Len(f.remaining))]]
        /\ UNCHANGED <<single, pp, sp, fl>>

\* Lines 184-186 in the call of thread t.
T_LoopNoMatch(t) ==
    LET f == threads[t]
    IN  /\ f.pc = "loop"
        /\ f.remaining # <<>>
        /\ ~HasMatch(f.remaining)
        /\ threads' = [threads EXCEPT ![t] =
                          [f EXCEPT !.chunks = Append(f.chunks, f.remaining),
                                    !.remaining = <<>>]]
        /\ UNCHANGED <<single, pp, sp, fl>>

\* Line 187 in the call of thread t.
T_LoopExit(t) ==
    LET f == threads[t]
    IN  /\ f.pc = "loop"
        /\ f.remaining = <<>>
        /\ threads' = [threads EXCEPT ![t] =
                          [f EXCEPT !.result = Join(f.chunks), !.pc = "check"]]
        /\ UNCHANGED <<single, pp, sp, fl>>

\* Lines 192-193 in the call of thread t: the recursive call gets a frame
\* of its own, and what it returns is returned.
T_Recurse(t) ==
    LET f == threads[t]
    IN  /\ f.pc = "check"
        /\ GlitchesLeft(f.result)
        /\ threads' = [threads EXCEPT ![t] =
                          IF f.depth + 1 > RecursionLimit
                          THEN [f EXCEPT !.pc = "raised", !.error = "RuntimeError"]
                          ELSE [Frame(f.result, f.depth + 1) EXCEPT !.text = f.text]]
        /\ UNCHANGED <<single, pp, sp, fl>>

\* Line 194 in the call of thread t.
T_Return(t) ==
    LET f == threads[t]
    IN  /\ f.pc = "check"
        /\ ~GlitchesLeft(f.result)
        /\ threads' = [threads EXCEPT ![t] =
                          [f EXCEPT !.ret = f.result, !.pc = "done"]]
        /\ UNCHANGED <<single, pp, sp, fl>>

\* Whichever thread the interpreter runs next does its next step.
NextThreads ==
    \E t \in 1..NThreads :
        \/ T_LoopMatch(t)
        \/ T_LoopNoMatch(t)
        \/ T_LoopExit(t)
        \/ T_Recurse(t)
        \/ T_Return(t)

\* NThreads calls, each on an argument of its own.
InitThreads ==
    /\ \E args \in [1..NThreads -> ThreadInputs] :
          threads = [t \in 1..NThreads |-> Frame(args[t], 1)]
    /\ pp = Idle
    /\ sp = Idle
    /\ fl = Idle
    /\ SingleIdle

SpecThreads == InitThreads /\ [][NextThreads]_vars

---------------------------------------------------------------------------
(* general.py: its own copy of fix_bad_unicode (lines 210-354), which is   *)
(* the one preprocess_text calls, and preprocess_text (lines 30-61).       *)

\* general.py keeps the nine characters apart from CP1252_GREMLINS (lines
\* 232-242); its ranges of lines 244-250 are those of fixit.py.
general_CP1252_MORE_GREMLINS ==
    { \h2026, \h2018, \h2019, \h201C, \h201D, \h2013, \h2014, \h2122, \h203A }

general_TRIPLES_WITH_GREMLINS == TRIPLES_REST \cup CP1252_GREMLINS

\* general.py lines 254-262.
general_BAD_UNICODE_SEQUENCES ==
    << << PAIRS_START, PAIRS_REST >>,
       << PAIRS_SAFE_START, PAIRS_REST \cup CP1252_GREMLINS >>,
       << {\hC3}, PAIRS_REST \cup CP1252_GREMLINS \cup general_CP1252_MORE_GREMLINS >>,
       << TRIPLES_START, TRIPLES_REST, TRIPLES_REST >>,
       << {\hE0}, TRIPLES_HIGH_SECOND, TRIPLES_REST >>,
       << {\hE2}, general_TRIPLES_WITH_GREMLINS,
                  general_TRIPLES_WITH_GREMLINS \cup general_CP1252_MORE_GREMLINS >> >>

\* The first alternative of general.py's pattern, from the k-th on, that
\* matches s at position i; 0 when none does.
RECURSIVE general_FirstShapeFrom(_, _, _)
general_FirstShapeFrom(k, s, i) ==
    IF k > Len(general_BAD_UNICODE_SEQUENCES) THEN 0
    ELSE LET p == general_BAD_UNICODE_SEQUENCES[k]
         IN  IF /\ i + Len(p) - 1 <= Len(s)
                /\ \A j \in 1..Len(p) : s[i + j - 1] \in p[j]
             THEN k
             ELSE general_FirstShapeFrom(k + 1, s, i)

\* BAD_UNICODE_RE.search(s) of general.py (lines 263-264, 326).
general_BAD_UNICODE_RE_search(s) ==
    IF \E i \in 1..Len(s) : general_FirstShapeFrom(1, s, i) # 0
    THEN LET i == CHOOSE i \in 1..Len(s) :
                    /\ general_FirstShapeFrom(1, s, i) # 0
                    /\ \A h \in 1..(i - 1) : general_FirstShapeFrom(1, s, h) = 0
             k == general_FirstShapeFrom(1, s, i)
         IN  [start |-> i, end |-> i + Len(general_BAD_UNICODE_SEQUENCES[k]),
              shape |-> k]
    ELSE NoMatch

\* char.encode('cp1252') has a byte for c: ASCII, A0-FF and the 27
\* characters of 0x80-0x9F; the control characters U+0080-U+009F have none.
Cp1252Encodable(c) ==
    \/ c < \h80
    \/ c \in \hA0 .. \hFF
    \/ c \in CP1252_MORE_GREMLINS

\* general.py lines 330-339: the span as Latin-1, or else the whole span as
\* cp1252, whose UnicodeEncodeError nothing catches.
general_EncodeSpan(to_fix) ==
    IF Latin1Encodable(to_fix)
    THEN [ok |-> TRUE, bytes |-> to_fix]
    ELSE IF \A i \in 1..Len(to_fix) : Cp1252Encodable(to_fix[i])
    THEN [ok |-> TRUE,
          bytes |-> [i \in 1..Len(to_fix) |->
                       IF to_fix[i] \in CP1252_MORE_GREMLINS
                       THEN Cp1252Byte(to_fix[i]) ELSE to_fix[i]]]
    ELSE [ok |-> FALSE, bytes |-> <<>>]

\* general.py lines 324-347 from `remaining` on.
RECURSIVE general_Pass(_)
general_Pass(rem) ==
    IF rem = <<>> THEN [ok |-> TRUE, val |-> <<>>, error |-> ""]
    ELSE LET match == general_BAD_UNICODE_RE_search(rem)
             before == SubSeq(rem, 1, match.start - 1)
             to_fix == SubSeq(rem, match.start, match.end - 1)
             encoded == general_EncodeSpan(to_fix)
             fixed == Utf8Decode(encoded.bytes)
             rest == general_Pass(SubSeq(rem, match.end, Len(rem)))
         IN  IF match = NoMatch THEN [ok |-> TRUE, val |-> rem, error |-> ""]
             ELSE IF ~encoded.ok
                  THEN [ok |-> FALSE, val |-> <<>>, error |-> "UnicodeEncodeError"]
             ELSE IF ~fixed.ok
                  THEN [ok |-> FALSE, val |-> <<>>, error |-> "UnicodeDecodeError"]
             ELSE IF ~rest.ok THEN rest
             ELSE [ok |-> TRUE, val |-> before \o fixed.val \o rest.val, error |-> ""]

\* general.py lines 316-354 in the frame number d.
RECURSIVE general_fix_bad_unicode_frame(_, _)
general_fix_bad_unicode_frame(arg, d) ==
    LET r == general_Pass(arg)
    IN  IF ~r.ok THEN r
        ELSE IF general_BAD_UNICODE_RE_search(r.val) = NoMatch THEN r
        ELSE IF d + 1 > RecursionLimit
             THEN [ok |-> FALSE, val |-> <<>>, error |-> "RuntimeError"]
        ELSE general_fix_bad_unicode_frame(r.val, d + 1)

\* fix_bad_unicode of general.py, called from a frame of preprocess_text.
general_fix_bad_unicode(arg) == general_fix_bad_unicode_frame(arg, 2)

\* CONTROL_CHARS, general.py lines 31-37: the characters of category Cc
\* below 256 (00-1F and 7F-9F) are deleted, but tab and newline become a
\* space.
CONTROL_CHARS(c) ==
    IF c \in {\h09, \h0A} THEN << \h20 >>
    ELSE IF c \in (\h00 .. \h1F) \cup (\h7F .. \h9F) THEN <<>>
    ELSE << c >>

\* text.translate(CONTROL_CHARS), line 61.
RECURSIVE translate(_)
translate(s) ==
    IF s = <<>> THEN <<>> ELSE CONTROL_CHARS(Head(s)) \o translate(Tail(s))

\* The compatibility decomposition of the characters preprocess_text is
\* given here: the ligature fi, the ellipsis and the no-break space have
\* one, the others stand for themselves.
NFKC_Decomposition(c) ==
    CASE c = \hFB01 -> << \h66, \h69 >>
      [] c = \h2026 -> << \h2E, \h2E, \h2E >>
      [] c = \hA0   -> << \h20 >>
      [] OTHER      -> << c >>

\* The composite of a character and the combining mark that follows it, 0
\* when there is none: A, i and A-with-ring take the acute accent U+0301.
NFKC_Composite(base, mark) ==
    CASE mark = \h301 /\ base = \h41 -> \hC1
      [] mark = \h301 /\ base = \h69 -> \hED
      [] mark = \h301 /\ base = \hC5 -> \h1FA
      [] OTHER -> 0

RECURSIVE NFKC_Decompose(_)
NFKC_Decompose(s) ==
    IF s = <<>> THEN <<>>
    ELSE NFKC_Decomposition(Head(s)) \o NFKC_Decompose(Tail(s))

\* Composition from the left: a mark joins the character before it when
\* the two have a composite.
RECURSIVE NFKC_Compose(_, _)
NFKC_Compose(done, s) ==
    IF s = <<>> THEN done
    ELSE IF done # <<>> /\ NFKC_Composite(done[Len(done)], Head(s)) # 0
    THEN NFKC_Compose(SubSeq(done, 1, Len(done) - 1)
                         \o << NFKC_Composite(done[Len(done)], Head(s)) >>,
                      Tail(s))
    ELSE NFKC_Compose(Append(done, Head(s)), Tail(s))

\* unicodedata.normalize('NFKC', s), line 61, on these characters.
NFKC(s) == NFKC_Compose(<<>>, NFKC_Decompose(s))

\* A slip: the control characters are removed before the repair.
PP_Repair_AfterTranslate ==
    /\ pp.pc = "start"
    /\ LET r == general_fix_bad_unicode(translate(pp.text))
       IN  pp' = IF r.ok THEN [pp EXCEPT !.pc = "repaired", !.fixed = r.val]
                 ELSE [pp EXCEPT !.pc = "raised", !.error = r.error]
    /\ UNCHANGED <<single, threads, sp, fl>>

\* Line 60: text = fix_bad_unicode(text); an exception of the repair leaves
\* preprocess_text.
PP_Repair ==
    /\ pp.pc = "start"
    /\ LET r == general_fix_bad_unicode(pp.text)
       IN  pp' = IF r.ok THEN [pp EXCEPT !.pc = "repaired", !.fixed = r.val]
                 ELSE [pp EXCEPT !.pc = "raised", !.error = r.error]
    /\ UNCHANGED <<single, threads, sp, fl>>

\* Line 61: the control characters are translated, then the string is
\* normalized, and the result is returned.
PP_Normalize ==
    /\ pp.pc = "repaired"
    /\ pp' = [pp EXCEPT !.pc = "done", !.out = NFKC(translate(pp.fixed))]
    /\ UNCHANGED <<single, threads, sp, fl>>

NextPreprocess ==
    \/ PP_Repair
    \/ PP_Normalize

\* Longest clean string that is garbled and given to preprocess_text.
MaxOrigin == 2

\* The characters of the clean strings: a tab, a letter, characters whose
\* UTF-8 form has a byte of 80-9F, and characters that NFKC changes.
PPChars ==
    { \h09, \h41, \hC5, \hA0, \h301, \h201D, \h2014, \h2026, \h2054, \hFB01 }

\* How the clean string reached the caller: as it is, through Latin-1 or
\* through Windows-1252.
PPGarble(how, s) ==
    CASE how = "raw" -> s
      [] how = "latin-1" -> Garble(s)
      [] how = "cp1252" -> WindowsGarble(s)

\* preprocess_text is called on a clean string or on a garbled form of a
\* clean string that holds no match itself.
InitPreprocess ==
    /\ \E o \in SeqsUpTo(PPChars, MaxOrigin), how \in {"raw", "latin-1", "cp1252"} :
          /\ how # "raw" => general_BAD_UNICODE_RE_search(o) = NoMatch
          /\ pp = [pc |-> "start", text |-> PPGarble(how, o), origin |-> o,
                   how |-> how, fixed |-> <<>>, out |-> <<>>, error |-> ""]
    /\ threads = <<>>
    /\ sp = Idle
    /\ fl = Idle
    /\ SingleIdle

SpecPreprocess == InitPreprocess /\ [][NextPreprocess]_vars

---------------------------------------------------------------------------
(* string_pieces, token_utils.py lines 113-150: a generator that cuts a    *)
(* string into pieces of at most maxlen characters.  Positions are those   *)
(* of the code, counted from 0: s[i:j] is SubSeq(s, i + 1, j).             *)

\* token_utils.py lines 114-126.
BOUNDARY_CATEGORIES ==
    { "Cc", "Cf", "Cn", "Pc", "Pd", "Pe", "Pf", "Pi", "Po", "Zl", "Zp", "Zs" }

\* unicodedata.category(c) of the characters the strings are made of: the
\* space, the hyphen, digits and a letter.
category(c) ==
    CASE c = \h20 -> "Zs"
      [] c = \h2D -> "Pd"
      [] c \in \h30 .. \h39 -> "Nd"
      [] c = \h61 -> "Ll"

\* A slip: the test looks at s[j], which leaves the boundary character to
\* the piece on the right.
AtBoundary_Right(s, j) == category(s[j + 1]) \in BOUNDARY_CATEGORIES

\* Line 143, `unicodedata.category(s[j - 1]) not in BOUNDARY_CATEGORIES`,
\* negated: the character before position j is a boundary.
AtBoundary(s, j) == category(s[j]) \in BOUNDARY_CATEGORIES

\* Lines 134-135: nothing is yielded for an empty string.
SP_Empty ==
    /\ sp.pc = "start"
    /\ sp.s = <<>>
    /\ sp' = [sp EXCEPT !.pc = "returned"]
    /\ UNCHANGED <<single, threads, pp, fl>>

\* Line 136.
SP_Begin ==
    /\ sp.pc = "start"
    /\ sp.s # <<>>
    /\ sp' = [sp EXCEPT !.i = 0, !.pc = "window"]
    /\ UNCHANGED <<single, threads, pp, fl>>

\* Lines 138-141: the window reaches the end of the string; the rest is
\* yielded and the generator returns.
SP_Last ==
    /\ sp.pc = "window"
    /\ sp.i + sp.maxlen >= Len(sp.s)
    /\ sp' = [sp EXCEPT !.j = sp.i + sp.maxlen,
                        !.pieces = Append(sp.pieces,
                                          SubSeq(sp.s, sp.i + 1, Len(sp.s))),
                        !.pc = "returned"]
    /\ UNCHANGED <<single, threads, pp, fl>>

\* Lines 138-139: the window ends inside the string.
SP_Window ==
    /\ sp.pc = "window"
    /\ sp.i + sp.maxlen < Len(sp.s)
    /\ sp' = [sp EXCEPT !.j = sp.i + sp.maxlen, !.pc = "scan"]
    /\ UNCHANGED <<single, threads, pp, fl>>

\* A slip: the loop is left at j = i without line 147, and an empty piece
\* is yielded.
SP_Scan_BreakNoReset ==
    /\ sp.pc = "scan"
    /\ ~AtBoundary(sp.s, sp.j)
    /\ sp' = IF sp.j - 1 = sp.i
             THEN [sp EXCEPT !.j = sp.j - 1, !.pc = "broke"]
             ELSE [sp EXCEPT !.j = sp.j - 1]
    /\ UNCHANGED <<single, threads, pp, fl>>

\* Lines 143-148: one iteration of the inner loop; with no boundary in the
\* window, j is put back to the end of the window.
SP_Scan ==
    /\ sp.pc = "scan"
    /\ ~AtBoundary(sp.s, sp.j)
    /\ sp' = IF sp.j - 1 = sp.i
             THEN [sp EXCEPT !.j = sp.i + sp.maxlen, !.pc = "broke"]
             ELSE [sp EXCEPT !.j = sp.j - 1]
    /\ UNCHANGED <<single, threads, pp, fl>>

\* A slip: the next window starts one character after j, and the
\* character at j is in no piece.
SP_Yield_SkipsOne ==
    /\ \/ sp.pc = "scan" /\ AtBoundary(sp.s, sp.j)
       \/ sp.pc = "broke"
    /\ sp' = [sp EXCEPT !.pieces = Append(sp.pieces, SubSeq(sp.s, sp.i + 1, sp.j)),
                        !.i = sp.j + 1,
                        !.pc = "window"]
    /\ UNCHANGED <<single, threads, pp, fl>>

\* Lines 149-150: the inner loop has ended, by its condition or by the
\* break; s[i:j] is yielded and the next window starts at j.
SP_Yield ==
    /\ \/ sp.pc = "scan" /\ AtBoundary(sp.s, sp.j)
       \/ sp.pc = "broke"
    /\ sp' = [sp EXCEPT !.pieces = Append(sp.pieces, SubSeq(sp.s, sp.i + 1, sp.j)),
                        !.i = sp.j,
                        !.pc = "window"]
    /\ UNCHANGED <<single, threads, pp, fl>>

NextPieces ==
    \/ SP_Empty
    \/ SP_Begin
    \/ SP_Last
    \/ SP_Window
    \/ SP_Scan
    \/ SP_Yield

\* Longest string cut, and largest maxlen it is cut with.
MaxString == 6
MaxMaxlen == 3

\* A digit, the space and the hyphen.
PieceChars == { \h31, \h20, \h2D }

\* test_string_pieces, test_tokens.py lines 42-46.
test_text ==
    << \h31, \h32, \h20, \h31, \h32, \h20, \h31, \h32, \h33, \h34,
       \h35, \h20, \h31, \h32, \h33, \h34, \h35, \h36, \h20, \h31,
       \h32, \h33, \h34, \h35, \h36, \h37, \h2D, \h31, \h32, \h33,
       \h34, \h35, \h36, \h37, \h38 >>
test_maxlen == 6
test_pieces ==
    << << \h31, \h32, \h20, \h31, \h32, \h20 >>,
       << \h31, \h32, \h33, \h34, \h35, \h20 >>,
       << \h31, \h32, \h33, \h34, \h35, \h36 >>,
       << \h20 >>,
       << \h31, \h32, \h33, \h34, \h35, \h36 >>,
       << \h37, \h2D >>,
       << \h31, \h32, \h33, \h34, \h35, \h36 >>,
       << \h37, \h38 >> >>

\* list(string_pieces(s, maxlen)) is started.
StartPieces(s, maxlen) ==
    /\ sp = [pc |-> "start", s |-> s, maxlen |-> maxlen, i |-> 0, j |-> 0,
             pieces |-> <<>>]
    /\ threads = <<>>
    /\ pp = Idle
    /\ fl = Idle
    /\ SingleIdle

InitPieces ==
    \/ \E s \in SeqsUpTo(PieceChars, MaxString), maxlen \in 1..MaxMaxlen :
          StartPieces(s, maxlen)
    \/ StartPieces(test_text, test_maxlen)

SpecPieces == InitPieces /\ [][NextPieces]_vars

---------------------------------------------------------------------------
(* The spans of the six shapes and the strings next to them.               *)

\* Every string that alternative k matches whole.
ShapeSpans(k) ==
    LET p == BAD_UNICODE_SEQUENCES[k]
    IN  IF Len(p) = 2
        THEN { << a, b >> : a \in p[1], b \in p[2] }
        ELSE { << a, b, c >> : a \in p[1], b \in p[2], c \in p[3] }

\* A character of C0-FF followed by a continuation, a gremlin, a
\* more-gremlin or a letter.
PairProbes ==
    { << a, b >> : a \in \hC0 .. \hFF,
                   b \in PAIRS_REST \cup CP1252_MORE_GREMLINS \cup {\h41} }

\* The second and third characters of the longer probes: a letter, the ends
\* of the continuations below and from A0 on, a lead, a gremlin and a
\* more-gremlin.
ProbeRest == { \h41, \h80, \h83, \h9F, \hA0, \hBF, \hC3, \h20AC, \h201D }

TripleProbes ==
    { << a, b, c >> : a \in \hC0 .. \hFF, b \in ProbeRest, c \in ProbeRest }

\* Every string that some alternative matches whole, and the probes.
InitSpans ==
    \/ \E k \in 1..Len(BAD_UNICODE_SEQUENCES) :
          \E t \in ShapeSpans(k) : Start(t, t, 0)
    \/ \E t \in PairProbes \cup TripleProbes : Start(t, t, 0)

SpecSpans == InitSpans /\ [][Next]_vars

---------------------------------------------------------------------------
(* Whole strings garbled once: s.encode('utf-8').decode('latin-1').        *)

MaxClean == 3

\* Characters of the BMP by the length and the place of their UTF-8 form:
\* a letter; U+0083, U+00C3, U+00E2 and U+00E9, of two bytes, which are
\* themselves a continuation, leads and a plain letter; U+0800, the first
\* of three bytes; a gremlin and a more-gremlin; and U+FFFF, the last.
BmpChars ==
    { \h41, \h83, \hC3, \hE2, \hE9, \h800, \h20AC, \h201D, \hFFFF }

\* The characters of the supplementary planes taken every SupStride code
\* points, with the first and the last of those whose UTF-8 lead is F0, F1
\* to F3, and F4.
SupStride == 251

SupplementaryChars ==
    { k * SupStride : k \in (\hFFFF \div SupStride + 1) .. (\h10FFFF \div SupStride) }
        \cup { \h10000, \h3FFFF, \h40000, \hFFFFF, \h100000, \h10FFFF }

\* The argument is the string s garbled once: a string over BmpChars, or
\* one character of the supplementary planes.
InitStrings ==
    \/ \E s \in SeqsUpTo(BmpChars, MaxClean) : Start(Garble(s), s, 1)
    \/ \E c \in SupplementaryChars : Start(Garble(<< c >>), << c >>, 1)

SpecStrings == InitStrings /\ [][Next]_vars

---------------------------------------------------------------------------
(* FreelingWrapper.analyze, freeling.py lines 93-121, with the pipe of     *)
(* extprocess.py.  A text is the sequence of its lines and a line is the   *)
(* sequence of its words; the external process answers a line with one     *)
(* record per word and then an empty line.                                 *)

MaxLines == 3
MaxRestarts == 2

\* An empty line, two lines of one word and a line of two.
FreelingLines == { <<>>, << 1 >>, << 2 >>, << 1, 2 >> }

\* The empty line that ends the records of a chunk (line 111).
EndOfRecords == 0

\* text.strip() seen on the lines: the empty lines before the first and
\* after the last line that holds a word are dropped.
Strip(lines) ==
    LET full == { i \in 1..Len(lines) : lines[i] # <<>> }
    IN  IF full = {} THEN <<>>
        ELSE SubSeq(lines, CHOOSE i \in full : \A h \in full : i <= h,
                           CHOOSE i \in full : \A h \in full : h <= i)

\* What the process writes for a chunk: a record per word, then the empty
\* line.
ProcessOutput(chunk) == chunk \o << EndOfRecords >>

\* Lines 98-102: the argument is cleaned and stripped; an empty text
\* returns the empty list, and else the loop over its lines starts with no
\* results.
FL_Prologue ==
    /\ fl.pc = "call"
    /\ LET stripped == Strip(fl.text)
       IN  IF stripped = <<>>
           THEN fl' = [fl EXCEPT !.text = stripped, !.ret = <<>>, !.pc = "returned"]
           ELSE fl' = [fl EXCEPT !.text = stripped, !.bytes = FALSE,
                                 !.chunks = stripped, !.n = 1, !.results = <<>>,
                                 !.pc = "loop"]
    /\ UNCHANGED <<single, threads, pp, sp>>

\* Line 98 when the argument is the byte string of line 105: fix_text is
\* given bytes, which the library may refuse with UnicodeError.
FL_Prologue_Refused ==
    /\ fl.pc = "call"
    /\ fl.bytes
    /\ fl' = [fl EXCEPT !.error = "UnicodeError", !.pc = "raised"]
    /\ UNCHANGED <<single, threads, pp, sp>>

\* Lines 103-104: a chunk with no word is passed over.
FL_Blank ==
    /\ fl.pc = "loop"
    /\ fl.n <= Len(fl.chunks)
    /\ fl.chunks[fl.n] = <<>>
    /\ fl' = [fl EXCEPT !.n = fl.n + 1]
    /\ UNCHANGED <<single, threads, pp, sp>>

\* Lines 105-107: `text` is bound to the encoded chunk, which is written
\* to the process.
FL_Send ==
    /\ fl.pc = "loop"
    /\ fl.n <= Len(fl.chunks)
    /\ fl.chunks[fl.n] # <<>>
    /\ fl' = [fl EXCEPT !.text = << fl.chunks[fl.n] >>, !.bytes = TRUE,
                        !.out = ProcessOutput(fl.chunks[fl.n]),
                        !.pc = "receive"]
    /\ UNCHANGED <<single, threads, pp, sp>>

\* Lines 109-116: a line of the output is read; it is a record.
FL_Record ==
    /\ fl.pc = "receive"
    /\ Head(fl.out) # EndOfRecords
    /\ fl' = [fl EXCEPT !.results = Append(fl.results, Head(fl.out)),
                        !.out = Tail(fl.out)]
    /\ UNCHANGED <<single, threads, pp, sp>>

\* Lines 109-113: the empty line is read and the next chunk is taken.
FL_EndOfChunk ==
    /\ fl.pc = "receive"
    /\ Head(fl.out) = EndOfRecords
    /\ fl' = [fl EXCEPT !.out = <<>>, !.n = fl.n + 1, !.pc = "loop"]
    /\ UNCHANGED <<single, threads, pp, sp>>

\* Line 109 with extprocess.py lines 88-92, then lines 119-121: the output
\* of the process has ended, receive_output_line raises ProcessError, the
\* process is started again (extprocess.py lines 94-98) and analyze is
\* called with the local `text`.
FL_ProcessError ==
    /\ fl.pc = "receive"
    /\ fl.restarts < MaxRestarts
    /\ fl' = [fl EXCEPT !.out = <<>>, !.restarts = fl.restarts + 1,
                        !.depth = fl.depth + 1, !.pc = "call"]
    /\ UNCHANGED <<single, threads, pp, sp>>

\* Line 118: every chunk is done; the results are returned, through every
\* frame of analyze.
FL_Return ==
    /\ fl.pc = "loop"
    /\ fl.n > Len(fl.chunks)
    /\ fl' = [fl EXCEPT !.ret = fl.results, !.depth = 0, !.pc = "returned"]
    /\ UNCHANGED <<single, threads, pp, sp>>

NextFreeling ==
    \/ FL_Prologue
    \/ FL_Prologue_Refused
    \/ FL_Blank
    \/ FL_Send
    \/ FL_Record
    \/ FL_EndOfChunk
    \/ FL_ProcessError
    \/ FL_Return

\* analyze(t) is called.
StartFreeling(t) ==
    /\ fl = [pc |-> "call", arg |-> t, text |-> t, bytes |-> FALSE,
             chunks |-> <<>>, n |-> 0, results |-> <<>>, out |-> <<>>,
             restarts |-> 0, depth |-> 1, ret |-> <<>>, error |-> ""]
    /\ threads = <<>>
    /\ pp = Idle
    /\ sp = Idle
    /\ SingleIdle

InitFreeling == \E t \in SeqsUpTo(FreelingLines, MaxLines) : StartFreeling(t)

SpecFreeling == InitFreeling /\ [][NextFreeling]_vars

---------------------------------------------------------------------------
(* What the claims speak of.                                               *)

\* Some position of s starts one of the six shapes.
HasShape(s) ==
    \E i \in 1..Len(s), k \in 1..Len(BAD_UNICODE_SEQUENCES) : ShapeAt(k, s, i)

\* The outermost call has ended, by a return or by an exception.
Ended == pc \in {"done", "raised"}

\* The characters of the classification sets named by the termination
\* argument: the leads, the continuations and the 18 gremlins.
Suspicious ==
    PAIRS_START \cup {\hE0} \cup TRIPLES_START \cup PAIRS_REST \cup CP1252_GREMLINS

SuspiciousCount(s) == Cardinality({ i \in 1..Len(s) : s[i] \in Suspicious })

\* A measure of the work left: the length of the innermost call's argument,
\* then how far that call has come.
Phase ==
    CASE pc = "loop" -> Len(remaining) + 2
      [] pc = "check" -> 1
      [] OTHER -> 0

Rank == Len(cur) * (Len(text) + 3) + Phase

---------------------------------------------------------------------------
(* C1.  fix_bad_unicode is idempotent: applying it to what it returned     *)
(* returns the same string.                                                *)
C1_Idempotent ==
    (calls = 2 /\ pc = "done") => ret = first

\* The second application has returned, and the first one had repaired its input.
C1_Witness ==
    /\ calls = 2
    /\ pc = "done"
    /\ HasShape(text)
    /\ first # text
    /\ ret = first

(* C2.  A string in which no position starts one of the six shapes is      *)
(* returned unchanged: same characters, same order, same length.           *)
C2_CleanUnchanged ==
    (pc = "done" /\ ~HasShape(text)) => (ret = text /\ Len(ret) = Len(text))

\* A clean string with a lead character that no continuation follows has
\* been returned as it was.
C2_Witness ==
    /\ pc = "done"
    /\ ~HasShape(text)
    /\ \E i \in 1..Len(text) : text[i] \in {\hC3, \hE2}
    /\ \E i \in 1..Len(text) : text[i] \in PAIRS_REST \cup CP1252_MORE_GREMLINS
    /\ ret = text

(* C3.  Single-character round trip: for every code point c below 65533    *)
(* that is not private use (surrogates included), the repair of the UTF-8  *)
(* bytes of c read as Latin-1 ends by returning the one-character string c.*)
C3_BmpRoundTrip ==
    (Ended /\ level = 1 /\ origin[1] \in TestedBmp) => (pc = "done" /\ ret = origin)

\* The garbled form of the surrogate U+D800 (ED A0 80) has been repaired.
C3_Witness ==
    /\ pc = "done"
    /\ level = 1
    /\ origin = << \hD800 >>
    /\ text = << \hED, \hA0, \h80 >>
    /\ ret = origin

(* C4.  Multi-level repair: a character garbled k times, k in 1..3, is     *)
(* repaired to the character itself, and a character that the garbling     *)
(* changes (U+0080 and above) takes exactly k passes that change the       *)
(* string: one pass per level.                                             *)
C4_MultiLevel ==
    Ended => /\ pc = "done"
             /\ ret = origin
             /\ passes = (IF origin[1] >= \h80 THEN level ELSE 0)

\* U+0171 garbled three times (eight characters) has been repaired in three passes.
C4_Witness ==
    /\ pc = "done"
    /\ level = 3
    /\ origin = << \h171 >>
    /\ Len(text) = 8
    /\ passes = 3
    /\ ret = origin

(* C5.  Fixed point: whenever fix_bad_unicode returns, no position of the   *)
(* returned string starts one of the six shapes.                           *)
C5_FixedPoint ==
    pc = "done" => ~HasShape(ret)

\* A call that needed two passes that changed the string has returned.
C5_Witness ==
    /\ pc = "done"
    /\ passes >= 2
    /\ ~HasShape(ret)

(* C6.  fix_bad_unicode never raises: no call ends with an exception.      *)
C6_NeverRaises ==
    pc # "raised"

(* C7.  Termination and its bounds: every step lowers Rank, so the call    *)
(* ends; the passes that change the string are at most the characters of   *)
(* the input that are leads, continuations or gremlins; and the while loop *)
(* of a pass makes at most as many iterations as its string is long.       *)
C7_Terminates ==
    [][ /\ Rank' < Rank
        /\ passes' <= SuspiciousCount(text)
        /\ steps' <= Len(cur') ]_vars

\* A call that made two passes that changed the string has ended.
C7_Witness ==
    /\ pc = "done"
    /\ passes = 2
    /\ SuspiciousCount(text) >= 2
    /\ depth = 0

(* C8.  The returned string is never longer than the input, and it is      *)
(* strictly shorter when some position of the input starts a shape.        *)
C8_LengthShrinks ==
    pc = "done" => /\ Len(ret) <= Len(text)
                   /\ HasShape(text) => Len(ret) < Len(text)

\* An input with a shape has been returned shorter, with text kept before
\* and after the repaired span.
C8_Witness ==
    /\ pc = "done"
    /\ HasShape(text)
    /\ Len(ret) < Len(text)
    /\ Len(ret) >= 3

(* C10.  The iteration cap: when the passes allowed are used up and the    *)
(* result still holds a match, the call returns that partially repaired    *)
(* result.                                                                 *)
C10_CapReturnsPartial ==
    [][ (pc = "check" /\ GlitchesLeft(result) /\ depth >= RecursionLimit)
            => (pc' = "done" /\ ret' = result) ]_vars

(* C11.  A character that is in the more-gremlins only is taken into a     *)
(* repaired span only directly after U+00C3 or as the third character of a *)
(* span that starts with U+00E2.  After any other character of C0-FF it    *)
(* and that character are returned as they were, as the second character   *)
(* after U+00E2 it is kept, and every phrase of test_valid_phrases and     *)
(* every tail of one is returned unchanged.                                *)
C11_MoreGremlins ==
    /\ \A n \in 1..Len(spans) :
          LET to_fix == spans[n][1]
          IN  \A j \in 1..Len(to_fix) :
                 to_fix[j] \in MoreOnly =>
                    \/ j = 2 /\ to_fix[1] = \hC3 /\ Len(to_fix) = 2
                    \/ j = 3 /\ to_fix[1] = \hE2
    /\ (Ended /\ level = 0 /\ text \in PhraseTails) =>
          (pc = "done" /\ ret = text /\ passes = 0)
    /\ (Ended /\ text \in Probes /\ Len(text) = 2 /\ text[1] # \hC3) =>
          (pc = "done" /\ ret = text)
    /\ (Ended /\ text \in Probes /\ Len(text) = 3
              /\ ~(text[1] = \hE2 /\ text[2] \in TRIPLES_REST \cup CP1252_GREMLINS)
              /\ ~(text[1] = \hC3 /\ text[2] = \h83)) =>
          (pc = "done" /\ ret # <<>> /\ ret[Len(ret)] = text[3])

\* The Windows-garbled form of the fourth phrase has been repaired: the
\* U+201D that ends each U+00E2 U+20AC U+201D was taken into the span, and
\* the dashes it gave stand next to U+00C1 in the string returned.
C11_Witness ==
    /\ pc = "done"
    /\ level = 1
    /\ origin = phrases[4]
    /\ SubSeq(text, 1, 3) = << \hE2, \h20AC, \h201D >>
    /\ ret = origin
    /\ ret[Len(ret) - 1] = \hC1
    /\ ret[Len(ret)] \in MoreOnly

\* The byte of one character of a span: the character's own value up to
\* U+00FF, the Windows-1252 byte of a gremlin or more-gremlin.
ByteOfChar(c) == IF c <= \hFF THEN c ELSE Cp1252Byte(c)

(* C12.  The replacement of every matched span is the UTF-8 decoding of    *)
(* the bytes got by mapping each character on its own: a character up to   *)
(* U+00FF to the byte of the same value, a gremlin or more-gremlin to its  *)
(* Windows-1252 byte in 80-9F.  No span fails to encode or to decode, also *)
(* when it mixes a raw control character with a gremlin, and the doctests  *)
(* print what they say (U+00E2 U+0081 U+201D gives U+2054, U+00E2 U+20AC   *)
(* U+201D gives U+2014).                                                   *)
C12_SpanBytes ==
    /\ \A n \in 1..Len(spans) :
          LET to_fix == spans[n][1]
              bytes == [i \in 1..Len(to_fix) |-> ByteOfChar(to_fix[i])]
          IN  /\ \A i \in 1..Len(to_fix) :
                    to_fix[i] > \hFF => bytes[i] \in \h80 .. \h9F
              /\ Utf8Decode(bytes).ok
              /\ spans[n][2] = Utf8Decode(bytes).val
    /\ error \notin {"UnicodeEncodeError", "UnicodeDecodeError"}
    /\ \A d \in DOMAIN Doctests :
          (Ended /\ level = 0 /\ text = Doctests[d].arg) =>
              (pc = "done" /\ ret = Doctests[d].out)

\* The doctest of line 132 has returned: its span of U+00E2, the raw
\* control character U+0081 and the more-gremlin U+201D has become U+2054.
C12_Witness ==
    /\ pc = "done"
    /\ text = Doctests[4].arg
    /\ spans = << << << \hE2, \h81, \h201D >>, << \h2054 >> >> >>
    /\ ret = Doctests[4].out

\* The span holds one of the 27 Windows-1252 characters.
HasGremlin(to_fix) == \E j \in 1..Len(to_fix) : to_fix[j] \in CP1252_MORE_GREMLINS

C14_ThreadsIndependent ==
    [][ /\ \A t \in DOMAIN threads :
              threads'[t] # threads[t] =>
                 \A u \in DOMAIN threads \ {t} : threads'[u] = threads[u]
        /\ \A t \in DOMAIN threads :
              LET f == threads'[t]
                  alone == fix_bad_unicode(f.text)
              IN  /\ f.pc = "done" => (alone.ok /\ f.ret = alone.val)
                  /\ f.pc = "raised" => (~alone.ok /\ f.error = alone.error) ]_vars

\* The first call has returned from its second frame while the second call
\* is in its loop, one span repaired and one still to find.
C14_Witness ==
    /\ threads[1].pc = "done"
    /\ threads[1].text = << \hC3, \h83, \h83 >>
    /\ threads[1].depth = 2
    /\ threads[1].ret = << \hC3 >>
    /\ threads[2].pc = "loop"
    /\ threads[2].text = << \h41, \hC5, \h20AC, \h41, \hC3, \h83 >>
    /\ threads[2].chunks = << << \h41 >>, << \h140 >> >>
    /\ threads[2].remaining = << \h41, \hC3, \h83 >>

(* C15.  preprocess_text repairs the raw input first, before the control   *)
(* characters are translated and before NFKC: a garbled form of a clean    *)
(* string, with the control characters U+0080-U+009F it holds, is repaired *)
(* to the clean string, and what is returned is the clean string with its  *)
(* control characters translated, normalized.                              *)
C15_RepairFirst ==
    /\ pp.pc # "raised"
    /\ (pp.pc = "done" /\ pp.how # "raw") =>
          /\ pp.fixed = pp.origin
          /\ pp.out = NFKC(translate(pp.origin))

\* The work string_pieces has left: the characters from i on, then how far
\* the window at i has come.
SP_Rank ==
    IF sp.pc = "returned" THEN 0
    ELSE (Len(sp.s) - sp.i) * (sp.maxlen + 3)
         + (CASE sp.pc = "start" -> sp.maxlen + 3
              [] sp.pc = "window" -> sp.maxlen + 2
              [] sp.pc = "scan" -> sp.j - sp.i + 1
              [] sp.pc = "broke" -> 1)

(* C16.  For every string and every maxlen >= 1, every piece yielded by    *)
(* string_pieces has at least 1 and at most maxlen characters, nothing is  *)
(* yielded for the empty string, and the generator terminates: every step  *)
(* lowers SP_Rank.                                                         *)
C16_PieceLengths ==
    [][ /\ SP_Rank' < SP_Rank
        /\ \A k \in 1..Len(sp'.pieces) :
              Len(sp'.pieces[k]) >= 1 /\ Len(sp'.pieces[k]) <= sp'.maxlen
        /\ sp'.s = <<>> => sp'.pieces = <<>> ]_vars

\* "11-11" has been cut with maxlen 2: a window with no boundary gave a
\* piece of maxlen characters, a window with one gave a shorter piece, and
\* the rest was yielded last.
C16_Witness ==
    /\ sp.pc = "returned"
    /\ sp.maxlen = 2
    /\ sp.s = << \h31, \h31, \h2D, \h31, \h31 >>
    /\ sp.pieces = << << \h31, \h31 >>, << \h2D >>, << \h31, \h31 >> >>

\* The pieces put one after the other.
RECURSIVE Concat(_)
Concat(ps) == IF ps = <<>> THEN <<>> ELSE Head(ps) \o Concat(Tail(ps))

\* The window s[i:i+maxlen] that piece number k was cut from: it starts
\* where the pieces before it end.
WindowOf(k) ==
    LET i == Len(Concat(SubSeq(sp.pieces, 1, k - 1)))
        j == IF i + sp.maxlen <= Len(sp.s) THEN i + sp.maxlen ELSE Len(sp.s)
    IN  SubSeq(sp.s, i + 1, j)

\* The lengths of the prefixes of w that end with a boundary character.
BoundaryPrefixes(w) ==
    { n \in 1..Len(w) : category(w[n]) \in BOUNDARY_CATEGORIES }

\* The largest member of a non-empty set of numbers.
Max(S) == CHOOSE n \in S : \A m \in S : m <= n

\* Piece number k is the last one: the generator yielded it on line 140.
IsLastPiece(k) == sp.pc = "returned" /\ k = Len(sp.pieces)

(* C17.  string_pieces keeps the boundary character with the left piece:   *)
(* every piece but the last is the longest prefix of its window            *)
(* s[i:i+maxlen] that ends with a boundary character, and it is the whole  *)
(* window of maxlen characters only when the window holds no boundary      *)
(* character.  The string of test_string_pieces gives the pieces the test  *)
(* expects.                                                                *)
C17_BreakAtBoundary ==
    /\ \A k \in 1..Len(sp.pieces) :
          ~IsLastPiece(k) =>
             LET w == WindowOf(k)
                 B == BoundaryPrefixes(w)
             IN  /\ Len(w) = sp.maxlen
                 /\ B # {} => sp.pieces[k] = SubSeq(w, 1, Max(B))
                 /\ B = {} => sp.pieces[k] = w
    /\ (sp.pc = "returned" /\ sp.s = test_text /\ sp.maxlen = test_maxlen) =>
          sp.pieces = test_pieces

\* The string of test_string_pieces has been cut: the piece "7-" ends with
\* the hyphen, and "123456" before it is a whole window with no boundary.
C17_Witness ==
    /\ sp.pc = "returned"
    /\ sp.s = test_text
    /\ sp.maxlen = test_maxlen
    /\ sp.pieces[5] = << \h31, \h32, \h33, \h34, \h35, \h36 >>
    /\ sp.pieces[6] = << \h37, \h2D >>

\* The explicit scan: the shape found at position i when shapes 1 to 6 are
\* tested in this order on the classes of the characters, 0 when none
\* matches.
ScanShape(s, i) ==
    LET has2 == i + 1 <= Len(s)
        has3 == i + 2 <= Len(s)
        Continuation == \h80 .. \hBF
    IN  IF has2 /\ s[i] \in \hC2 .. \hDF /\ s[i + 1] \in Continuation THEN 1
        ELSE IF has2 /\ s[i] \in \hC3 .. \hC9 /\ s[i + 1] \in CP1252_GREMLINS THEN 2
        ELSE IF has2 /\ s[i] = \hC3
                     /\ s[i + 1] \in Continuation \cup CP1252_MORE_GREMLINS THEN 3
        ELSE IF has3 /\ s[i] \in \hE1 .. \hEF /\ s[i + 1] \in Continuation
                     /\ s[i + 2] \in Continuation THEN 4
        ELSE IF has3 /\ s[i] = \hE0 /\ s[i + 1] \in \hA0 .. \hBF
                     /\ s[i + 2] \in Continuation THEN 5
        ELSE IF has3 /\ s[i] = \hE2
                     /\ s[i + 1] \in Continuation \cup CP1252_GREMLINS
                     /\ s[i + 2] \in Continuation \cup CP1252_MORE_GREMLINS THEN 6
        ELSE 0

ScanLength(k) == IF k <= 3 THEN 2 ELSE 3

\* The matches of the scan with the cursor at i: the first shape that
\* matches is taken and the cursor moves past it, or else it moves by one.
RECURSIVE ScanMatches(_, _)
ScanMatches(s, i) ==
    IF i > Len(s) THEN <<>>
    ELSE LET k == ScanShape(s, i)
         IN  IF k = 0 THEN ScanMatches(s, i + 1)
             ELSE << [start |-> i, end |-> i + ScanLength(k), shape |-> k] >>
                     \o ScanMatches(s, i + ScanLength(k))

\* The replacement of a span: its characters' bytes decoded as UTF-8.
ScanRepair(to_fix) ==
    Utf8Decode([j \in 1..Len(to_fix) |-> ByteOfChar(to_fix[j])]).val

\* The output of one pass made by the scan.
RECURSIVE ScanPass(_, _)
ScanPass(s, i) ==
    IF i > Len(s) THEN <<>>
    ELSE LET k == ScanShape(s, i)
         IN  IF k = 0 THEN << s[i] >> \o ScanPass(s, i + 1)
             ELSE ScanRepair(SubSeq(s, i, i + ScanLength(k) - 1))
                     \o ScanPass(s, i + ScanLength(k))

(* C18.  The spans the loop of one call replaces are those of the explicit *)
(* scan of its argument: the n-th span replaced is the n-th match of the   *)
(* scan, the search goes on from the end of that match, so that the        *)
(* matches are leftmost first, in rising positions and apart, and the      *)
(* string the loop joins is the output of the scan's pass.                 *)
C18_ScanEquivalence ==
    LET M == ScanMatches(cur, 1)
    IN  (pc \in {"loop", "check", "done"}) =>
          /\ \A n \in 1..(Len(M) - 1) :
                M[n].start < M[n].end /\ M[n].end <= M[n + 1].start
          /\ Len(spans) <= Len(M)
          /\ \A n \in 1..Len(spans) :
                /\ spans[n][1] = SubSeq(cur, M[n].start, M[n].end - 1)
                /\ spans[n][2] = ScanRepair(spans[n][1])
          /\ (pc = "loop" /\ spans # <<>> /\ Len(chunks) = 2 * Len(spans)) =>
                remaining = SubSeq(cur, M[Len(spans)].end, Len(cur))
          /\ (pc \in {"check", "done"}) =>
                (Len(spans) = Len(M) /\ result = ScanPass(cur, 1))

\* A pass has replaced two spans of different shapes, the second found by
\* the search that began where the first ended.
C18_Witness ==
    /\ pc = "check"
    /\ cur = << \hC2, \hA9, \hC3, \h83 >>
    /\ spans = << << << \hC2, \hA9 >>, << \hA9 >> >>, << << \hC3, \h83 >>, << \hC3 >> >> >>
    /\ result = << \hA9, \hC3 >>

\* The chunks of a pass with every replacement put back as the span it
\* replaced: the characters of the argument the loop has gone through.
RECURSIVE Restore(_, _)
Restore(cs, sps) ==
    IF sps = <<>> THEN Join(cs)
    ELSE Head(cs) \o Head(sps)[1] \o Restore(Tail(Tail(cs)), Tail(sps))

\* The position in the joined result of the n-th replacement of the pass.
ReplacementAt(n) == Len(Join(SubSeq(chunks, 1, 2 * n - 1))) + 1

\* Some replacement of the pass forms a shape in the result together with
\* the characters next to it.
ReplacementInShape ==
    \E n \in 1..Len(spans) : \E i \in 1..Len(result) :
        /\ FirstShapeAt(result, i) # 0
        /\ i <= ReplacementAt(n)
        /\ ReplacementAt(n) < i + Len(BAD_UNICODE_SEQUENCES[FirstShapeAt(result, i)])

(* C19.  Within one pass the search goes on right after each span and does *)
(* not see the replacement: a step that replaces a span puts the           *)
(* replacement in the chunks and leaves to search only what followed the   *)
(* span, so what has been gone through and what is left to search are      *)
(* always the argument of the call; and when a replacement forms a shape   *)
(* with the characters next to it, the pass ends with that shape in its    *)
(* result and the shape is repaired by the next call.                      *)
C19_ResumeAfterSpan ==
    [][ /\ (pc = "loop" /\ pc' = "loop" /\ Len(spans') = Len(spans) + 1) =>
              LET to_fix == spans'[Len(spans')][1]
                  fixed == spans'[Len(spans')][2]
              IN  /\ \E before \in {SubSeq(remaining, 1, h) : h \in 0..Len(remaining)} :
                        /\ remaining = before \o to_fix \o remaining'
                        /\ chunks' = chunks \o << before, fixed >>
                  /\ Restore(chunks', spans') \o remaining' = cur'
                  /\ cur' = cur
        /\ (pc = "loop" /\ pc' = "check") =>
              /\ Restore(chunks, spans) = cur
              /\ result' = Join(chunks)
        /\ (pc = "check" /\ ReplacementInShape) =>
              /\ pc' = "loop"
              /\ cur' = result
              /\ remaining' = result
              /\ depth' = depth + 1
      ]_vars

\* The second call is repairing U+00C3 U+0083, which the first call made
\* of U+00C3 U+0083 U+0083 by replacing its first two characters.
C19_Witness ==
    /\ text = << \hC3, \h83, \h83 >>
    /\ depth = 2
    /\ pc = "loop"
    /\ cur = << \hC3, \h83 >>
    /\ spans = << << << \hC3, \h83 >>, << \hC3 >> >> >>
    /\ remaining = <<>>

\* The iterative driver runs the pass again on its output until a pass
\* leaves the string unchanged: holding the string s, it goes on when the
\* pass changes s and stops with s when it does not.
IterativeGoesOn(s) == Pass(s).val # s

(* C20.  The recursive driver returns what the iterative driver returns:   *)
(* a pass changes its argument exactly when the argument holds a match,    *)
(* and after every pass the call goes on with a pass on the result exactly *)
(* when the iterative driver does, and returns the result when the         *)
(* iterative driver stops with it.                                         *)
C20_DriversAgree ==
    [][ pc = "check" =>
          /\ (result # cur) <=> HasShape(cur)
          /\ IterativeGoesOn(result) <=> GlitchesLeft(result)
          /\ IF IterativeGoesOn(result)
             THEN pc' = "loop" /\ cur' = result /\ remaining' = result
             ELSE pc' = "done" /\ ret' = result
      ]_vars

\* The characters of the classification sets: the leads, the continuations,
\* the gremlins and the more-gremlins.
Classified ==
    PAIRS_START \cup {\hE0} \cup TRIPLES_START \cup PAIRS_REST
        \cup TRIPLES_REST \cup CP1252_MORE_GREMLINS

ClassifiedCount(s) == Cardinality({ i \in 1..Len(s) : s[i] \in Classified })

\* The characters the spans of a pass lose: each span but one character.
RECURSIVE SpanLoss(_)
SpanLoss(sps) ==
    IF sps = <<>> THEN 0
    ELSE Len(Head(sps)[1]) - Len(Head(sps)[2]) + SpanLoss(Tail(sps))

(* C21.  Every repair replaces a span of two or three characters by one    *)
(* character, so a pass that found a match gives a string that is shorter  *)
(* than its argument and holds fewer characters of the classification      *)
(* sets, also when the replacement is in such a set.                       *)
C21_PassShrinks ==
    pc = "check" =>
        /\ \A n \in 1..Len(spans) :
              /\ Len(spans[n][1]) \in {2, 3}
              /\ Len(spans[n][2]) = 1
        /\ Len(result) = Len(cur) - SpanLoss(spans)
        /\ spans # <<>> =>
              /\ Len(result) < Len(cur)
              /\ ClassifiedCount(result) < ClassifiedCount(cur)

\* A pass has repaired U+00C3 U+0083 to U+00C3, a lead again, and kept a
\* continuation after it.
C21_Witness ==
    /\ pc = "check"
    /\ cur = << \hC3, \h83, \h83 >>
    /\ result = << \hC3, \h83 >>
    /\ ClassifiedCount(result) = 2

\* The characters of C0-FF that start no shape: the bytes C0 and C1 and the
\* bytes from F0 on.
NeverLeads == { \hC0, \hC1 } \cup (\hF0 .. \hFF)

(* C22.  Every span the search matches is two or three characters long     *)
(* and starts with a character of U+00C2..U+00EF; no match starts at       *)
(* U+00C0, U+00C1 or U+00F0..U+00FF.                                       *)
C22_SpanLengths ==
    /\ \A n \in 1..Len(spans) :
          /\ Len(spans[n][1]) \in {2, 3}
          /\ spans[n][1][1] \in \hC2 .. \hEF
    /\ \A i \in 1..Len(text) :
          text[i] \in NeverLeads => \A k \in 1..Len(BAD_UNICODE_SEQUENCES) : ~ShapeAt(k, text, i)
    /\ (pc = "loop" /\ remaining # <<>>) =>
          LET match == BAD_UNICODE_RE_search(remaining)
          IN  match # NoMatch =>
                /\ match.end - match.start \in {2, 3}
                /\ remaining[match.start] \in \hC2 .. \hEF

\* U+00F0 followed by two continuations has been returned as it was.
C22_Witness ==
    /\ pc = "done"
    /\ text = << \hF0, \h9F, \h80 >>
    /\ spans = <<>>
    /\ ret = text

\* The two-byte leads outside PAIRS_SAFE_START: C2 and CA-DF.
UnsafeLeads == PAIRS_START \ PAIRS_SAFE_START

(* C23.  A two-byte lead outside the safe set (U+00C2, U+00CA..U+00DF)     *)
(* followed by one of the 18 gremlins is never matched and the pair is     *)
(* left as it is; a span of two characters has a gremlin as its second     *)
(* only after a lead of U+00C3..U+00C9.                                    *)
C23_UnsafeLeadGremlin ==
    /\ \A i \in 1..(Len(text) - 1) :
          (text[i] \in UnsafeLeads /\ text[i + 1] \in CP1252_GREMLINS) =>
              /\ FirstShapeAt(text, i) = 0
              /\ (Len(text) = 2) =>
                    (pc # "raised" /\ spans = <<>> /\ (pc = "done" => ret = text))
    /\ \A n \in 1..Len(spans) :
          (Len(spans[n][1]) = 2 /\ spans[n][1][2] \in CP1252_GREMLINS) =>
              spans[n][1][1] \in \hC3 .. \hC9

\* U+00CA followed by the euro sign has been returned as it was.
C23_Witness ==
    /\ pc = "done"
    /\ text = << \hCA, \h20AC >>
    /\ spans = <<>>
    /\ ret = text

(* C24.  The decoding of a matched span never fails: for every span that   *)
(* the search finds, the encoding of lines 167-176 succeeds with one byte  *)
(* per character, and the bytes are the well-formed UTF-8 form of one      *)
(* character, the surrogates (ED A0..BF 80..BF) included; no call ends     *)
(* with an encoding or decoding error.                                     *)
C24_DecodeNeverFails ==
    /\ error \notin {"UnicodeEncodeError", "UnicodeDecodeError"}
    /\ (pc = "loop" /\ remaining # <<>> /\ HasMatch(remaining)) =>
          LET match == BAD_UNICODE_RE_search(remaining)
              to_fix == SubSeq(remaining, match.start, match.end - 1)
              encoded == EncodeSpan(to_fix)
              fixed == Utf8Decode(encoded.bytes)
          IN  /\ encoded.ok
              /\ Len(encoded.bytes) = Len(to_fix)
              /\ fixed.ok
              /\ Len(fixed.val) = 1
              /\ Utf8Encode(fixed.val[1]) = encoded.bytes

\* The span ED BF BF, the UTF-8 form of the last surrogate, has been
\* decoded to U+DFFF.
C24_Witness ==
    /\ pc = "done"
    /\ text = << \hED, \hBF, \hBF >>
    /\ spans = << << text, << \hDFFF >> >> >>
    /\ ret = << \hDFFF >>

\* The characters of s that the garbling changes, in order, each with its
\* garbled form as the span and itself as the replacement.
RECURSIVE GarbledSpans(_)
GarbledSpans(s) ==
    IF s = <<>> THEN <<>>
    ELSE IF Head(s) < \h80 THEN GarbledSpans(Tail(s))
    ELSE << << Utf8Encode(Head(s)), << Head(s) >> >> >> \o GarbledSpans(Tail(s))

(* C25.  String round trip: a string of BMP characters in which no         *)
(* position starts a shape, garbled whole (UTF-8 read as Latin-1), is      *)
(* repaired to itself; the first pass takes as its spans the garbled forms *)
(* of the characters, one after the other, and restores every character,   *)
(* and no second pass is made.                                             *)
C25_StringRoundTrip ==
    (~HasShape(origin) /\ \A i \in 1..Len(origin) : origin[i] <= \hFFFF) =>
        /\ pc # "raised"
        /\ depth <= 1
        /\ pc \in {"check", "done"} =>
              (spans = GarbledSpans(origin) /\ result = origin)
        /\ pc = "done" => ret = origin

\* U+00E9, a letter and the euro sign, garbled to six characters, have
\* been restored by one pass.
C25_Witness ==
    /\ pc = "done"
    /\ origin = << \hE9, \h41, \h20AC >>
    /\ text = << \hC3, \hA9, \h41, \hE2, \h82, \hAC >>
    /\ passes = 1
    /\ ret = origin

\* The alternatives tested in another order: the list turned by r places,
\* and the list reversed.
Rotated(r) ==
    [k \in 1..Len(BAD_UNICODE_SEQUENCES) |-> ((k + r - 1) % Len(BAD_UNICODE_SEQUENCES)) + 1]

Reversed ==
    [k \in 1..Len(BAD_UNICODE_SEQUENCES) |-> Len(BAD_UNICODE_SEQUENCES) + 1 - k]

\* Two shapes match at one position only for the pairs of shapes 1 and 3,
\* 2 and 3, and 4 and 6; the reversed list takes the other shape of each
\* pair, and the list turned by two places tests the third shape first.
Orders == { Reversed, Rotated(2) }

\* The alternative taken at position i when they are tested in `order`.
RECURSIVE FirstShapeIn(_, _, _, _)
FirstShapeIn(order, n, s, i) ==
    IF n > Len(order) THEN 0
    ELSE IF ShapeAt(order[n], s, i) THEN order[n]
    ELSE FirstShapeIn(order, n + 1, s, i)

\* The search with the alternatives tested in `order`.
SearchIn(order, s) ==
    IF \E i \in 1..Len(s) : FirstShapeIn(order, 1, s, i) # 0
    THEN LET i == CHOOSE i \in 1..Len(s) :
                    /\ FirstShapeIn(order, 1, s, i) # 0
                    /\ \A h \in 1..(i - 1) : FirstShapeIn(order, 1, s, h) = 0
             k == FirstShapeIn(order, 1, s, i)
         IN  [start |-> i, end |-> i + Len(BAD_UNICODE_SEQUENCES[k]), shape |-> k]
    ELSE NoMatch

\* One pass, and the whole repair, with the alternatives tested in `order`.
RECURSIVE PassIn(_, _)
PassIn(order, rem) ==
    IF rem = <<>> THEN <<>>
    ELSE LET match == SearchIn(order, rem)
             to_fix == SubSeq(rem, match.start, match.end - 1)
         IN  IF match = NoMatch THEN rem
             ELSE SubSeq(rem, 1, match.start - 1)
                    \o Utf8Decode(EncodeSpan(to_fix).bytes).val
                    \o PassIn(order, SubSeq(rem, match.end, Len(rem)))

RECURSIVE FixIn(_, _)
FixIn(order, arg) ==
    LET r == PassIn(order, arg)
    IN  IF SearchIn(order, r) = NoMatch THEN r ELSE FixIn(order, r)

(* C26.  The order in which the six shapes are tested does not change the *)
(* result: the shapes that match at one position all match a span of the   *)
(* same length, two characters after a first character of U+00C2..U+00DF   *)
(* and three after one of U+00E0..U+00EF, so the search finds the same     *)
(* span in every order, and the string returned is the same.               *)
C26_OrderIrrelevant ==
    /\ \A i \in 1..Len(cur) : \A k \in 1..Len(BAD_UNICODE_SEQUENCES) :
          ShapeAt(k, cur, i) =>
              Len(BAD_UNICODE_SEQUENCES[k]) = (IF cur[i] \in \hC2 .. \hDF THEN 2 ELSE 3)
    /\ (pc = "loop" /\ remaining # <<>>) =>
          \A order \in Orders :
              LET m == SearchIn(order, remaining)
                  match == BAD_UNICODE_RE_search(remaining)
              IN  m.start = match.start /\ m.end = match.end
    /\ pc = "done" => \A order \in Orders : FixIn(order, text) = ret

\* U+00C3 U+0083, which the first and the third shape both match, has been
\* repaired.
C26_Witness ==
    /\ pc = "done"
    /\ text = << \hC3, \h83 >>
    /\ ShapeAt(1, text, 1)
    /\ ShapeAt(3, text, 1)
    /\ FixIn(Reversed, text) = << \hC3 >>
    /\ ret = << \hC3 >>

\* The two patterns find the same span in s.
SameSearch(s) ==
    LET match == BAD_UNICODE_RE_search(s)
        g == general_BAD_UNICODE_RE_search(s)
    IN  g.start = match.start /\ g.end = match.end

(* C27.  The copy of fix_bad_unicode in general.py and the one in fixit.py *)
(* find the same spans and return the same string for every input, also    *)
(* when a span holds a control character of U+0080..U+009F together with   *)
(* a gremlin.                                                              *)
C27_CopiesAgree ==
    /\ (pc = "loop" /\ remaining # <<>>) => SameSearch(remaining)
    /\ pc = "check" => SameSearch(result)
    /\ pc = "done" =>
          general_fix_bad_unicode_frame(text, 1) = [ok |-> TRUE, val |-> ret, error |-> ""]

(* C28.  The characters outside the BMP are out of reach: the garbled form *)
(* of a character of the supplementary planes is a lead of F0..F4 and      *)
(* three continuations, no position of it starts a shape, and              *)
(* fix_bad_unicode returns it as it is.                                    *)
C28_SupplementaryUntouched ==
    (Len(origin) = 1 /\ origin[1] \in \h10000 .. \h10FFFF) =>
        /\ Len(text) = 4
        /\ text[1] \in \hF0 .. \hF4
        /\ \A j \in 2..4 : text[j] \in \h80 .. \hBF
        /\ ~HasShape(text)
        /\ spans = <<>>
        /\ pc # "raised"
        /\ pc = "done" => (ret = text /\ passes = 0)

\* The garbled form of U+10FFFF, F4 8F BF BF, has been returned as it was.
C28_Witness ==
    /\ pc = "done"
    /\ origin = << \h10FFFF >>
    /\ text = << \hF4, \h8F, \hBF, \hBF >>
    /\ ret = text

(* C29.  The pieces of string_pieces(s, maxlen), put one after the other   *)
(* in the order they are yielded, are the string s: while the generator    *)
(* runs they are the characters of s before the next window, and when it   *)
(* has returned they are all of s.                                         *)
C29_PiecesConcat ==
    /\ sp.pc \in {"window", "scan", "broke"} =>
          (sp.i <= Len(sp.s) /\ Concat(sp.pieces) = SubSeq(sp.s, 1, sp.i))
    /\ sp.pc = "returned" => Concat(sp.pieces) = sp.s

\* "1-1 11" has been cut into three pieces with maxlen 2, the hyphen and
\* the space each at the end of a piece.
C29_Witness ==
    /\ sp.pc = "returned"
    /\ sp.maxlen = 2
    /\ sp.s = << \h31, \h2D, \h31, \h20, \h31, \h31 >>
    /\ sp.pieces = << << \h31, \h2D >>, << \h31, \h20 >>, << \h31, \h31 >> >>
    /\ Concat(sp.pieces) = sp.s

\* The records of every line of the text that holds a word, in order.
RECURSIVE RecordsOf(_)
RecordsOf(lines) ==
    IF lines = <<>> THEN <<>> ELSE Head(lines) \o RecordsOf(Tail(lines))

(* C30.  When the output of the process ends in the middle of analyze, the *)
(* process is started again and the retry analyses the whole text the      *)
(* call was given: the records returned are those of every line that       *)
(* holds a word, in order, each once.                                      *)
C30_RetryCoversText ==
    /\ (fl.pc = "call" /\ fl.restarts > 0) => Strip(fl.text) = Strip(fl.arg)
    /\ fl.pc = "returned" => fl.ret = RecordsOf(fl.arg)


=============================================================================
